---- MODULE Spec2Model ----
(***************************************************************************)
(* Analysis and reporting pipeline of OSInt-AI.                            *)
(*                                                                         *)
(*   backend/analyzers/ai_analyzer.py   AIAnalyzer (analyze, batch_analyze)*)
(*   backend/utils/report_generator.py  ReportGenerator (generate_insights,*)
(*                                      generate_summary, export_html)     *)
(*   backend/api/v1/reports.py          generate_report, export_report,    *)
(*                                      list, get, latest, delete          *)
(*   backend/api/v1/analysis.py         analyze_data, get_analysis_results *)
(*   backend/api/v1/sources.py          trigger_collection, update_source  *)
(*   backend/collectors                 CollectorFactory, GitHubCollector  *)
(*                                                                         *)
(* Python values are held as tagged records (Str, Num, Bool, Null, List,   *)
(* Obj); a dict is a function from its keys to tagged values.  A Python    *)
(* call that can raise yields Return(value) or Raise(exception class).     *)
(***************************************************************************)
EXTENDS Integers, Sequences, FiniteSets, TLC

VARIABLES
    engine,         \* AIAnalyzer instance: the configuration set by __init__
    pc,             \* batch_analyze: "idle", "loop", "done", "raised"
    items,          \* batch_analyze: the argument items
    analysis_type,  \* batch_analyze: the argument analysis_type
    results,        \* batch_analyze: the local list results
    calls,          \* history: request sent and response received, per analyze call
    now,            \* the clock read by time.time() and datetime.utcnow()
    analyses,       \* generate_insights: the argument analyses
    hash_seed,      \* the interpreter's string hash seed (fixed per process)
    runs,           \* history: the outcome of each generate_insights call on analyses
    reports,        \* the table reports, in id order
    report_seq,     \* the last value of the id sequence of the table reports
    response,       \* the response to the last request to the API, if any
    sources,        \* the table data_sources, in id order
    collected,      \* the table collected_data, in id order
    collectors,     \* history: the collectors CollectorFactory has created
    invocations     \* the analyze coroutines of concurrent callers, in start order

vars == <<engine, pc, items, analysis_type, results, calls, now,
          analyses, hash_seed, runs, reports, report_seq, response,
          sources, collected, collectors, invocations>>

engineVars == <<engine, pc, items, analysis_type, results, calls>>
aggVars == <<analyses, hash_seed, runs>>
apiVars == <<reports, report_seq, response>>
serviceVars == <<sources, collected, collectors, invocations>>

(***************************************************************************)
(* Bounds of the model.                                                    *)
(***************************************************************************)
MaxItems == 2

(***************************************************************************)
(* Python values.                                                          *)
(***************************************************************************)
Str(s) == [t |-> "str", v |-> s]
Num(n) == [t |-> "num", v |-> n]
Bool(b) == [t |-> "bool", v |-> b]
Null == [t |-> "null"]
List(s) == [t |-> "list", v |-> s]
Obj(d) == [t |-> "obj", v |-> d]

EmptyDict == [k \in {} |-> Null]

\* d.get(k, default)
DictGet(d, k, default) == IF k \in DOMAIN d THEN d[k] ELSE default

\* d[k] = x
DictSet(d, k, x) == [j \in (DOMAIN d) \cup {k} |-> IF j = k THEN x ELSE d[j]]

\* bool(x)
Truthy(x) ==
    CASE x.t = "null" -> FALSE
      [] x.t = "bool" -> x.v
      [] x.t = "num" -> x.v # 0
      [] x.t = "str" -> x.v # ""
      [] x.t = "list" -> Len(x.v) > 0
      [] x.t = "obj" -> DOMAIN x.v # {}

\* hash(x) is defined: lists and dicts are unhashable
Hashable(x) == x.t \notin {"list", "obj"}

Return(x) == [raised |-> FALSE, value |-> x]
Raise(e) == [raised |-> TRUE, exc |-> e]

\* datetime.isoformat(): the clock reading (seconds after 2024-01-01T00:00:00) as text
TwoDigits(n) == IF n < 10 THEN "0" \o ToString(n) ELSE ToString(n)

IsoFormat(t) ==
    "2024-01-01T" \o TwoDigits((t \div 3600) % 24) \o ":"
    \o TwoDigits((t \div 60) % 60) \o ":" \o TwoDigits(t % 60)

(***************************************************************************)
(* The inference capability: what the HTTP POST can do.                    *)
(***************************************************************************)
Choice(content) == Obj("message" :> Obj("content" :> content))
Completion(content) == Obj("choices" :> List(<<Choice(content)>>))

TextObject == "{\"sentiment\": \"positive\", \"trends\": []}"
TextTagged == "{\"analysis_type\": \"other\", \"model\": \"gpt\"}"
TextList == "[1, 2]"
TextNumber == "42"
TextString == "\"positive\""
TextNull == "null"
TextProse == "The sentiment is positive."
TextScored == "{\"sentiment\": \"positive\", \"confidence\": 1}"
TextConfident == "{\"sentiment\": \"positive\", \"confidence\": \"high\"}"

ModelTexts ==
    {TextObject, TextTagged, TextList, TextNumber, TextString, TextNull,
     TextProse}

\* json.loads on the texts above: the decoded value, or JSONDecodeError
JsonLoads(s) ==
    CASE s = TextObject ->
            Return(Obj(("sentiment" :> Str("positive")) @@ ("trends" :> List(<<>>))))
      [] s = TextTagged ->
            Return(Obj(("analysis_type" :> Str("other")) @@ ("model" :> Str("gpt"))))
      [] s = TextScored ->
            Return(Obj(("sentiment" :> Str("positive")) @@ ("confidence" :> Num(1))))
      [] s = TextConfident ->
            Return(Obj(("sentiment" :> Str("positive")) @@ ("confidence" :> Str("high"))))
      [] s = TextList -> Return(List(<<Num(1), Num(2)>>))
      [] s = TextNumber -> Return(Num(42))
      [] s = TextString -> Return(Str("positive"))
      [] s = TextNull -> Return(Null)
      [] OTHER -> Raise("JSONDecodeError")

\* Outcomes of client.post(...), raise_for_status() and response.json()
HttpOutcomes ==
    {[kind |-> "ConnectError"], [kind |-> "ReadTimeout"],
     [kind |-> "HTTPStatusError"], [kind |-> "BodyNotJson"]}
    \cup {[kind |-> "body", body |-> Completion(Str(s))] : s \in ModelTexts}
    \cup {[kind |-> "body", body |-> b] :
            b \in {Obj(EmptyDict), Obj("choices" :> List(<<>>)), Completion(Null)}}

\* timeout=60.0: a timed-out call takes the whole timeout, any other answer a second
InferenceTimeout == 60

Latency(http) == IF http.kind = "ReadTimeout" THEN InferenceTimeout ELSE 1

\* httpx.HTTPError and its subclasses
HTTPErrors == {"ConnectError", "ReadTimeout", "HTTPStatusError"}

\* Subclasses of Exception that the modelled code can raise
ExceptionClasses ==
    HTTPErrors \cup {"JSONDecodeError", "TypeError", "AttributeError", "IndexError",
                     "KeyError"}

(***************************************************************************)
(* AIAnalyzer.                                                             *)
(***************************************************************************)
AnalysisTypes == {"sentiment", "trend", "summary", "comprehensive"}

\* settings.AI_MODEL, AI_MAX_TOKENS, AI_TEMPERATURE (in tenths), GRADIENT_AI_ENDPOINT
AIAnalyzerInit ==
    [endpoint |-> "", model |-> "meta-llama/Llama-3.1-70B-Instruct",
     max_tokens |-> 2048, temperature |-> 7]

\* prompts.get(analysis_type, prompts["comprehensive"]), with content and context filled in
BuildPrompt(content, atype, metadata) ==
    [template |-> IF atype \in AnalysisTypes THEN atype ELSE "comprehensive",
     context_info |-> IF Truthy(metadata) THEN metadata ELSE Str(""),
     content |-> content]

\* The JSON body posted to {endpoint}/inference
InferenceRequest(self, prompt) ==
    [url |-> self.endpoint \o "/inference",
     model |-> self.model,
     messages |-> <<[role |-> "user", content |-> prompt]>>,
     max_tokens |-> self.max_tokens,
     temperature |-> self.temperature]

\* x[0]
Subscript0(x) ==
    CASE x.t = "list" -> IF Len(x.v) > 0 THEN Return(x.v[1]) ELSE Raise("IndexError")
      [] x.t = "str" -> IF x.v # "" THEN Return(Str("?")) ELSE Raise("IndexError")
      [] x.t = "obj" -> Raise("KeyError")
      [] OTHER -> Raise("TypeError")

\* x.get(k, default)
GetMethod(x, k, default) ==
    IF x.t = "obj" THEN Return(DictGet(x.v, k, default)) ELSE Raise("AttributeError")

\* result.get('choices', [{}])[0].get('message', {}).get('content', '')
ExtractContent(body) ==
    LET choices == GetMethod(body, "choices", List(<<Obj(EmptyDict)>>)) IN
    IF choices.raised THEN choices ELSE
    LET first == Subscript0(choices.value) IN
    IF first.raised THEN first ELSE
    LET message == GetMethod(first.value, "message", Obj(EmptyDict)) IN
    IF message.raised THEN message ELSE
    GetMethod(message.value, "content", Str(""))

\* _call_gradient_ai: both except clauses re-raise
CallGradientAI(self, prompt, http) ==
    CASE http.kind \in HTTPErrors -> Raise(http.kind)
      [] http.kind = "BodyNotJson" -> Raise("JSONDecodeError")
      [] OTHER -> ExtractContent(http.body)

\* _structure_result: only json.JSONDecodeError is caught
StructureResultPayloadFirst(ai_response, atype, t) ==
    IF ai_response.t # "str" THEN Raise("TypeError") ELSE
    LET parsed == JsonLoads(ai_response.v) IN
    IF parsed.raised
    THEN Return(("analysis_type" :> Str(atype)) @@ ("raw_response" :> ai_response)
                @@ ("timestamp" :> Str(IsoFormat(t))) @@ ("parsed" :> Bool(FALSE)))
    ELSE IF parsed.value.t = "obj"
    THEN Return(parsed.value.v @@ ("analysis_type" :> Str(atype))
                @@ ("timestamp" :> Str(IsoFormat(t))))
    ELSE Raise("TypeError")

StructureResult(ai_response, atype, t) ==
    IF ai_response.t # "str" THEN Raise("TypeError") ELSE
    LET parsed == JsonLoads(ai_response.v) IN
    IF parsed.raised
    THEN Return(("analysis_type" :> Str(atype)) @@ ("raw_response" :> ai_response)
                @@ ("timestamp" :> Str(IsoFormat(t))) @@ ("parsed" :> Bool(FALSE)))
    ELSE IF parsed.value.t = "obj"
    THEN Return(DictSet(DictSet(parsed.value.v, "analysis_type", Str(atype)),
                        "timestamp", Str(IsoFormat(t))))
    ELSE Raise("TypeError")

\* analyze: the classes matched by "except Exception"
AnalyzeCatches(exc) == exc \in ExceptionClasses

\* analyze: the except branch
AnalyzeExceptReraises(self, exc, t0, t1) == Raise(exc)

AnalyzeExcept(self, exc, t0, t1) ==
    IF AnalyzeCatches(exc)
    THEN Return(("error" :> Str(exc)) @@ ("processing_time" :> Num(t1 - t0))
                @@ ("model" :> Str(self.model)))
    ELSE Raise(exc)

\* analyze, started at time t0, with the inference call answering http at time t1:
\* the request sent, what _call_gradient_ai gave, what _structure_result gave
\* (when it was called) and what analyze gave to its caller
AnalyzeTrace(self, content, atype, metadata, http, t0, t1) ==
    LET prompt == BuildPrompt(content, atype, metadata)
        result == CallGradientAI(self, prompt, http)
        structured_result == StructureResult(result.value, atype, t1)
    IN  [request |-> InferenceRequest(self, prompt),
         http |-> http,
         t0 |-> t0,
         t1 |-> t1,
         result |-> result,
         structured |-> IF result.raised THEN <<>> ELSE <<structured_result>>,
         outcome |->
            IF result.raised THEN AnalyzeExcept(self, result.exc, t0, t1)
            ELSE IF structured_result.raised
            THEN AnalyzeExcept(self, structured_result.exc, t0, t1)
            ELSE Return(DictSet(DictSet(structured_result.value,
                                        "processing_time", Num(t1 - t0)),
                                "model", Str(self.model)))]

Analyze(self, content, atype, metadata, http, t0, t1) ==
    AnalyzeTrace(self, content, atype, metadata, http, t0, t1).outcome

(***************************************************************************)
(* batch_analyze, one loop iteration per step.                             *)
(***************************************************************************)
ItemFull ==
    ("content" :> Str("Fix crash in login flow"))
    @@ ("metadata" :> Obj("repo" :> Str("acme/api")))
ItemEmpty == EmptyDict

ItemSamples == {ItemFull, ItemEmpty}

SeqsUpTo(S, n) == UNION {[1..k -> S] : k \in 0..n}

\* item.get('content', '') and item.get('metadata')
ItemContent(item) == DictGet(item, "content", Str(""))
ItemMetadata(item) == DictGet(item, "metadata", Null)

\* results.append(result)
BatchPrepend(rs, r) == <<r>> \o rs

BatchOverwrite(rs, r) == <<r>>

BatchAppend(rs, r) == Append(rs, r)

\* a caller invokes batch_analyze(its, atype): results = []
BatchAnalyzeCall ==
    /\ pc = "idle"
    /\ \E its \in SeqsUpTo(ItemSamples, MaxItems), atype \in AnalysisTypes \cup {"custom"} :
         /\ items' = its
         /\ analysis_type' = atype
    /\ results' = <<>>
    /\ calls' = <<>>
    /\ pc' = "loop"
    /\ UNCHANGED <<engine, now>>
    /\ UNCHANGED aggVars
    /\ UNCHANGED apiVars
    /\ UNCHANGED serviceVars

\* one iteration of "for item in items": await self.analyze(...), then append
BatchAnalyzeItem ==
    /\ pc = "loop"
    /\ Len(calls) < Len(items)
    /\ \E http \in HttpOutcomes :
         LET item == items[Len(calls) + 1]
             dt == Latency(http)
             call == AnalyzeTrace(engine, ItemContent(item), analysis_type,
                                  ItemMetadata(item), http, now, now + dt)
         IN  /\ now' = now + dt
             /\ calls' = Append(calls, call)
             /\ IF call.outcome.raised
                THEN /\ pc' = "raised"
                     /\ UNCHANGED results
                ELSE /\ pc' = "loop"
                     /\ results' = BatchAppend(results, call.outcome.value)
    /\ UNCHANGED <<engine, items, analysis_type>>
    /\ UNCHANGED aggVars
    /\ UNCHANGED apiVars
    /\ UNCHANGED serviceVars

\* the loop is exhausted: return results
BatchAnalyzeReturn ==
    /\ pc = "loop"
    /\ Len(calls) = Len(items)
    /\ pc' = "done"
    /\ UNCHANGED <<engine, items, analysis_type, results, calls, now>>
    /\ UNCHANGED aggVars
    /\ UNCHANGED apiVars
    /\ UNCHANGED serviceVars

EngineInit ==
    /\ engine = AIAnalyzerInit
    /\ pc = "idle"
    /\ items = <<>>
    /\ analysis_type = "comprehensive"
    /\ results = <<>>
    /\ calls = <<>>
    /\ now = 0

AggIdle ==
    /\ analyses = <<>>
    /\ hash_seed = 1
    /\ runs = <<>>

ApiIdle ==
    /\ reports = <<>>
    /\ report_seq = 0
    /\ response = [status |-> 0]

ServiceIdle ==
    /\ sources = <<>>
    /\ collected = <<>>
    /\ collectors = <<>>
    /\ invocations = <<>>

Init == EngineInit /\ AggIdle /\ ApiIdle /\ ServiceIdle

Next == BatchAnalyzeCall \/ BatchAnalyzeItem \/ BatchAnalyzeReturn

Spec == Init /\ [][Next]_vars

\* The event loop resumes the coroutine, and every inference call ends within its
\* 60 second timeout, so a started loop iteration and the final return take place.
FairSpec == Spec /\ WF_vars(BatchAnalyzeItem) /\ WF_vars(BatchAnalyzeReturn)

(***************************************************************************)
(* Claims about AIAnalyzer.                                                *)
(***************************************************************************)
\* The i-th analyze call of the batch was made for items[i]
CallIsForItem(i) ==
    calls[i].request.messages[1].content.content = ItemContent(items[i])

\* The result of analyzing items[i], given what the inference call answered
ResultOfItem(i) ==
    Analyze(engine, ItemContent(items[i]), analysis_type, ItemMetadata(items[i]),
            calls[i].http, calls[i].t0, calls[i].t1)

\* C1: when the inference call fails (network error, timeout, HTTP error status)
\* analyze does not raise: it returns a record with the keys error, processing_time
\* and model, and model is the engine's configured model.
C1_AnalyzeRecoversTransportFailure ==
    \A k \in 1..Len(calls) :
        calls[k].http.kind \in HTTPErrors =>
            /\ ~calls[k].outcome.raised
            /\ {"error", "processing_time", "model"} \subseteq DOMAIN calls[k].outcome.value
            /\ calls[k].outcome.value["model"] = Str(AIAnalyzerInit.model)

C1_Witness ==
    \E k \in 1..Len(results) :
        /\ calls[k].http.kind = "ReadTimeout"
        /\ "error" \in DOMAIN results[k]
        /\ results[k]["error"] = Str("ReadTimeout")
        /\ results[k]["processing_time"] = Num(InferenceTimeout)

\* batch_analyze has not raised, and once it has returned the list has one entry per
\* item, entry i being the result of analyzing items[i] with the answer the i-th
\* inference call got
BatchIntact ==
    /\ pc # "raised"
    /\ pc = "done" =>
        /\ Len(results) = Len(items)
        /\ Len(calls) = Len(items)
        /\ \A i \in 1..Len(items) :
            /\ CallIsForItem(i)
            /\ ResultOfItem(i) = Return(results[i])

\* C2: for every list of items and every pattern of per-item outcomes, batch_analyze
\* ends without raising and never stops early; the list it returns has one entry per
\* item, in input order, and entry i is the result of analyzing items[i], whatever
\* happened to the other items.
C2_BatchAnalyzeIsolatesFailures ==
    /\ []BatchIntact
    /\ (pc = "loop") ~> (pc = "done")

C2_Witness ==
    /\ pc = "done"
    /\ Len(items) = 2
    /\ items[1] # items[2]
    /\ calls[1].http.kind = "ConnectError"
    /\ "error" \in DOMAIN results[1]
    /\ calls[2].result = Return(Str(TextProse))
    /\ "error" \notin DOMAIN results[2]
    /\ results[2]["parsed"] = Bool(FALSE)

\* Keys that analyze and _structure_result set themselves
EngineKeys == {"analysis_type", "timestamp", "processing_time", "model"}

\* C3: for every analysis type in {sentiment, trend, summary, comprehensive} and every
\* text the inference call returns, analyze returns a value with analysis_type and
\* timestamp that is the parsed payload or a record with parsed = false and
\* raw_response.
C3_AnalyzeTagsEveryText ==
    \A k \in 1..Len(calls) :
        (/\ analysis_type \in AnalysisTypes
         /\ ~calls[k].result.raised
         /\ calls[k].result.value.t = "str") =>
            /\ ~calls[k].outcome.raised
            /\ LET value == calls[k].outcome.value
                   parsed == JsonLoads(calls[k].result.value.v)
               IN  /\ {"analysis_type", "timestamp"} \subseteq DOMAIN value
                   /\ \/ /\ ~parsed.raised
                         /\ parsed.value.t = "obj"
                         /\ \A key \in (DOMAIN parsed.value.v) \ EngineKeys :
                                /\ key \in DOMAIN value
                                /\ value[key] = parsed.value.v[key]
                      \/ /\ {"parsed", "raw_response"} \subseteq DOMAIN value
                         /\ value["parsed"] = Bool(FALSE)

\* C4: _structure_result never raises; when the text is not a valid structured
\* payload its result carries raw_response equal to the text, parsed = false,
\* analysis_type and a timestamp, and no error key.
C4_ParseStepNeverThrows ==
    \A k \in 1..Len(calls) :
        (/\ calls[k].structured # <<>>
         /\ calls[k].result.value.t = "str") =>
            LET text == calls[k].result.value
                parsed == JsonLoads(text.v)
                structured_result == calls[k].structured[1]
            IN  /\ ~structured_result.raised
                /\ (parsed.raised \/ parsed.value.t # "obj") =>
                    /\ {"raw_response", "parsed", "analysis_type", "timestamp"}
                            \subseteq DOMAIN structured_result.value
                    /\ structured_result.value["raw_response"] = text
                    /\ structured_result.value["parsed"] = Bool(FALSE)
                    /\ "error" \notin DOMAIN structured_result.value

(***************************************************************************)
(* ReportGenerator: the aggregation of stored Analysis rows.               *)
(* An Analysis row is [analysis_type, result, created_at].                 *)
(***************************************************************************)
Buckets == {"positive", "negative", "neutral"}

\* iter(x): the elements a for loop or list.extend visits, or its TypeError.
\* (A non-empty str or dict would be visited by character or by key; the model
\* holds no such value.)
IterValues(x) ==
    CASE x.t = "list" -> Return(x.v)
      [] x.t = "str" /\ x.v = "" -> Return(<<>>)
      [] x.t = "obj" /\ DOMAIN x.v = {} -> Return(<<>>)
      [] x.t \in {"null", "num", "bool"} -> Raise("TypeError")

\* _calculate_sentiment_distribution: the value tested with "sentiment in sentiments"
SentimentOfWithoutDefault(result) ==
    LET sentiment_data == result["sentiment"] IN
    IF sentiment_data.t = "obj"
    THEN DictGet(sentiment_data.v, "overall", Null)
    ELSE sentiment_data

SentimentOf(result) ==
    LET sentiment_data == result["sentiment"] IN
    IF sentiment_data.t = "obj"
    THEN DictGet(sentiment_data.v, "overall", Str("neutral"))
    ELSE sentiment_data

\* _calculate_sentiment_distribution: the dict sentiments after the first k analyses
RECURSIVE SentimentCounts(_, _)
SentimentCounts(rows, k) ==
    IF k = 0 THEN Return([b \in Buckets |-> 0]) ELSE
    LET prev == SentimentCounts(rows, k - 1)
        result == rows[k].result
    IN  IF prev.raised \/ "sentiment" \notin DOMAIN result THEN prev ELSE
        LET sentiment == SentimentOf(result) IN
        IF ~Hashable(sentiment) THEN Raise("TypeError")
        ELSE IF sentiment.t = "str" /\ sentiment.v \in DOMAIN prev.value
        THEN Return([prev.value EXCEPT ![sentiment.v] = @ + 1])
        ELSE prev

\* round(x, 2) of x = num / den, in hundredths (6000 is 60.0): the nearest
\* hundredth, an exact tie going to the even one
RoundHundredths(num, den) ==
    LET q == (num * 100) \div den
        r == (num * 100) % den
    IN  IF 2 * r > den \/ (2 * r = den /\ q % 2 = 1) THEN q + 1 ELSE q

\* _calculate_sentiment_distribution: percentages, in hundredths of a percent
PercentagesTruncated(sentiments) ==
    LET total == sentiments["positive"] + sentiments["negative"] + sentiments["neutral"] IN
    IF total > 0
    THEN [k \in DOMAIN sentiments |-> (sentiments[k] * 10000) \div total]
    ELSE [k \in DOMAIN sentiments |-> 0]

Percentages(sentiments) ==
    LET total == sentiments["positive"] + sentiments["negative"] + sentiments["neutral"] IN
    IF total > 0
    THEN [k \in DOMAIN sentiments |-> RoundHundredths(sentiments[k] * 100, total)]
    ELSE [k \in DOMAIN sentiments |-> 0]

CalculateSentimentDistribution(rows) ==
    LET sentiments == SentimentCounts(rows, Len(rows)) IN
    IF sentiments.raised THEN sentiments
    ELSE Return([counts |-> sentiments.value,
                 percentages |-> Percentages(sentiments.value)])

\* default limit of _extract_top_trends, and the cap of _extract_key_insights
TrendLimit == 10
InsightLimit == 15

\* x + mentions for an int x: the number added, or TypeError
AsNumber(mentions) ==
    CASE mentions.t = "num" -> Return(mentions.v)
      [] mentions.t = "bool" -> Return(IF mentions.v THEN 1 ELSE 0)
      [] OTHER -> Raise("TypeError")

\* trend.get('mentions', 1)
TrendMentionsDefaultZero(trend) == DictGet(trend.v, "mentions", Num(0))

TrendMentions(trend) == DictGet(trend.v, "mentions", Num(1))

\* _extract_top_trends: the body of "for trend in result['trends']".
\* trends_map is held as the sequence of its values in insertion order.
AddTrendWithoutTopicTest(trends_map, trend) ==
    IF trend.t # "obj" THEN Raise("AttributeError") ELSE
    LET topic == DictGet(trend.v, "topic", Str("")) IN
    IF ~Hashable(topic) THEN Raise("TypeError") ELSE
    LET mentions == AsNumber(TrendMentions(trend)) IN
    IF mentions.raised THEN mentions ELSE
    LET sentiment == DictGet(trend.v, "sentiment", Str("neutral"))
        score == IF sentiment = Str("positive") THEN 1
                 ELSE IF sentiment = Str("negative") THEN -1 ELSE 0
        entries == IF \E i \in DOMAIN trends_map : trends_map[i].topic = topic
                   THEN trends_map
                   ELSE Append(trends_map, [topic |-> topic, total_mentions |-> 0,
                                            sentiment_scores |-> <<>>])
    IN  Return([i \in DOMAIN entries |->
                  IF entries[i].topic = topic
                  THEN [entries[i] EXCEPT !.total_mentions = @ + mentions.value,
                                          !.sentiment_scores = Append(@, score)]
                  ELSE entries[i]])

AddTrend(trends_map, trend) ==
    IF trend.t # "obj" THEN Raise("AttributeError") ELSE
    LET topic == DictGet(trend.v, "topic", Null) IN
    IF ~Truthy(topic) THEN Return(trends_map) ELSE
    IF ~Hashable(topic) THEN Raise("TypeError") ELSE
    LET mentions == AsNumber(TrendMentions(trend)) IN
    IF mentions.raised THEN mentions ELSE
    LET sentiment == DictGet(trend.v, "sentiment", Str("neutral"))
        score == IF sentiment = Str("positive") THEN 1
                 ELSE IF sentiment = Str("negative") THEN -1 ELSE 0
        entries == IF \E i \in DOMAIN trends_map : trends_map[i].topic = topic
                   THEN trends_map
                   ELSE Append(trends_map, [topic |-> topic, total_mentions |-> 0,
                                            sentiment_scores |-> <<>>])
    IN  Return([i \in DOMAIN entries |->
                  IF entries[i].topic = topic
                  THEN [entries[i] EXCEPT !.total_mentions = @ + mentions.value,
                                          !.sentiment_scores = Append(@, score)]
                  ELSE entries[i]])

\* the inner loop, from the k-th trend on
RECURSIVE AddTrends(_, _, _)
AddTrends(trends_map, trends, k) ==
    IF k > Len(trends) THEN Return(trends_map) ELSE
    LET next == AddTrend(trends_map, trends[k]) IN
    IF next.raised THEN next ELSE AddTrends(next.value, trends, k + 1)

\* the outer loop: trends_map after the first k analyses
RECURSIVE TrendsMap(_, _)
TrendsMap(rows, k) ==
    IF k = 0 THEN Return(<<>>) ELSE
    LET prev == TrendsMap(rows, k - 1)
        result == rows[k].result
    IN  IF prev.raised \/ "trends" \notin DOMAIN result THEN prev ELSE
        LET trends == IterValues(result["trends"]) IN
        IF trends.raised THEN trends ELSE AddTrends(prev.value, trends.value, 1)

RECURSIVE SumSeq(_)
SumSeq(q) == IF q = <<>> THEN 0 ELSE q[1] + SumSeq(Tail(q))

\* avg_score > 0.3, avg_score < -0.3, else neutral
OverallSentimentBySign(scores) ==
    IF scores = <<>> THEN "neutral"
    ELSE IF SumSeq(scores) > 0 THEN "positive"
    ELSE IF SumSeq(scores) < 0 THEN "negative"
    ELSE "neutral"

OverallSentiment(scores) ==
    IF scores = <<>> THEN "neutral"
    ELSE IF 10 * SumSeq(scores) > 3 * Len(scores) THEN "positive"
    ELSE IF 10 * SumSeq(scores) < -3 * Len(scores) THEN "negative"
    ELSE "neutral"

\* sorted(..., key=total_mentions, reverse=True): stable, equal keys keep their order
RECURSIVE SortedByMentionsTiesReversed(_)
SortedByMentionsTiesReversed(entries) ==
    IF entries = <<>> THEN <<>> ELSE
    LET n == Len(entries)
        head == SortedByMentionsTiesReversed(SubSeq(entries, 1, n - 1))
        last == entries[n]
        before == Cardinality({i \in DOMAIN head :
                                 head[i].total_mentions > last.total_mentions})
    IN  SubSeq(head, 1, before) \o <<last>> \o SubSeq(head, before + 1, Len(head))

RECURSIVE SortedByMentions(_)
SortedByMentions(entries) ==
    IF entries = <<>> THEN <<>> ELSE
    LET n == Len(entries)
        head == SortedByMentions(SubSeq(entries, 1, n - 1))
        last == entries[n]
        before == Cardinality({i \in DOMAIN head :
                                 head[i].total_mentions >= last.total_mentions})
    IN  SubSeq(head, 1, before) \o <<last>> \o SubSeq(head, before + 1, Len(head))

\* q[:n]
Take(q, n) == SubSeq(q, 1, IF Len(q) < n THEN Len(q) ELSE n)

ExtractTopTrends(rows, limit) ==
    LET trends_map == TrendsMap(rows, Len(rows)) IN
    IF trends_map.raised THEN trends_map ELSE
    LET scored == [i \in DOMAIN trends_map.value |->
                     [topic |-> trends_map.value[i].topic,
                      total_mentions |-> trends_map.value[i].total_mentions,
                      overall_sentiment |->
                          OverallSentiment(trends_map.value[i].sentiment_scores)]]
    IN  Return(Take(SortedByMentions(scored), limit))

\* _extract_key_insights: insights.extend(result[key]) when the key is present
ExtendFrom(insights, result, key) ==
    IF insights.raised \/ key \notin DOMAIN result THEN insights ELSE
    LET more == IterValues(result[key]) IN
    IF more.raised THEN more ELSE Return(insights.value \o more.value)

\* _extract_key_insights: the list insights after the first k analyses
RECURSIVE CollectInsights(_, _)
CollectInsights(rows, k) ==
    IF k = 0 THEN Return(<<>>) ELSE
    ExtendFrom(ExtendFrom(ExtendFrom(CollectInsights(rows, k - 1),
                                     rows[k].result, "key_insights"),
                          rows[k].result, "recommendations"),
               rows[k].result, "key_points")

\* The insight strings of the model, numbered
InsightStrings ==
    <<"Enable MFA for maintainers", "Patch OpenSSL", "Rotate deploy keys",
      "Audit CI logs", "Pin action versions", "Sign release tags",
      "Review open advisories", "Drop unused tokens", "Require code review",
      "Enable secret scanning", "Update base images", "Restrict fork workflows",
      "Archive stale repositories", "Monitor typosquats", "Publish a security policy",
      "Track dependency drift">>

\* The place of a string in a set's hash table: str hashes are salted with the
\* seed the interpreter draws at start-up (PYTHONHASHSEED), so the iteration order
\* of a set of strings is fixed within a process and differs between processes.
HashSlot(x, seed) ==
    LET ordinal == CHOOSE i \in DOMAIN InsightStrings : Str(InsightStrings[i]) = x
    IN  (ordinal * seed) % 17

HashSeeds == {1, 16}

\* list(set_of_values): the elements in hash-table order
RECURSIVE SetToList(_, _)
SetToList(S, seed) ==
    IF S = {} THEN <<>> ELSE
    LET first == CHOOSE x \in S : \A y \in S : HashSlot(x, seed) <= HashSlot(y, seed)
    IN  <<first>> \o SetToList(S \ {first}, seed)

ExtractKeyInsightsWithoutSet(rows, seed) ==
    LET insights == CollectInsights(rows, Len(rows)) IN
    IF insights.raised THEN insights
    ELSE Return(Take(insights.value, InsightLimit))

ExtractKeyInsights(rows, seed) ==
    LET insights == CollectInsights(rows, Len(rows)) IN
    IF insights.raised THEN insights
    ELSE IF \E i \in DOMAIN insights.value : ~Hashable(insights.value[i])
    THEN Raise("TypeError")
    ELSE Return(Take(SetToList({insights.value[i] : i \in DOMAIN insights.value}, seed),
                     InsightLimit))

\* _summarize_activity
SummarizeActivityByPresence(rows) ==
    [by_type |-> [atype \in {rows[i].analysis_type : i \in DOMAIN rows} |-> 1],
     total |-> Len(rows)]

SummarizeActivity(rows) ==
    [by_type |->
        [atype \in {rows[i].analysis_type : i \in DOMAIN rows} |->
            Cardinality({i \in DOMAIN rows : rows[i].analysis_type = atype})],
     total |-> Len(rows)]

Min(S) == CHOOSE x \in S : \A y \in S : x <= y
Max(S) == CHOOSE x \in S : \A y \in S : x >= y

\* generate_insights past the "if not analyses" test, at clock reading t
BuildInsights(rows, seed, t) ==
    IF rows = <<>> THEN Raise("ValueError") ELSE
    LET created == {rows[i].created_at : i \in DOMAIN rows}
        sentiment_distribution == CalculateSentimentDistribution(rows)
        top_trends == ExtractTopTrends(rows, TrendLimit)
        key_insights == ExtractKeyInsights(rows, seed)
    IN  IF sentiment_distribution.raised THEN sentiment_distribution
        ELSE IF top_trends.raised THEN top_trends
        ELSE IF key_insights.raised THEN key_insights
        ELSE Return([total_analyses |-> Len(rows),
                     period |-> [start |-> IsoFormat(Min(created)),
                                 end |-> IsoFormat(Max(created))],
                     sentiment_distribution |-> sentiment_distribution.value,
                     top_trends |-> top_trends.value,
                     key_insights |-> key_insights.value,
                     activity_summary |-> SummarizeActivity(rows),
                     generated_at |-> IsoFormat(t)])

\* generate_insights: an empty list gives {}
GenerateInsightsWithoutEmptyTest(rows, seed, t) == BuildInsights(rows, seed, t)

GenerateInsightsOf(rows, seed, t) ==
    IF rows = <<>> THEN Return(EmptyDict) ELSE BuildInsights(rows, seed, t)

(***************************************************************************)
(* Stored Analysis rows the aggregation is run on.                         *)
(***************************************************************************)
MaxRows == 3
MaxSentimentRows == 5
MaxRuns == 2

Trend(topic, mentions, sentiment) ==
    Obj(("topic" :> Str(topic)) @@ ("mentions" :> mentions) @@ ("sentiment" :> Str(sentiment)))

\* a comprehensive payload in the shape the prompt asks for; its second trend has
\* no mentions, its third no topic
RowComprehensive ==
    [analysis_type |-> "comprehensive", created_at |-> 2,
     result |->
        ("sentiment" :> Obj(("overall" :> Str("positive")) @@ ("confidence" :> Num(1))))
        @@ ("trends" :> List(<<Trend("security", Num(5), "positive"),
                               Obj(("topic" :> Str("release"))
                                   @@ ("sentiment" :> Str("negative"))),
                               Obj("mentions" :> Num(9))>>))
        @@ ("key_insights" :> List(<<Str(InsightStrings[1]), Str(InsightStrings[2])>>))
        @@ ("recommendations" :> List(<<Str(InsightStrings[3])>>))]

\* a trend payload; its second trend has an empty topic
RowTrend ==
    [analysis_type |-> "trend", created_at |-> 3,
     result |->
        "trends" :> List(<<Trend("security", Num(3), "negative"),
                           Trend("", Num(4), "positive"),
                           Trend("release", Num(2), "positive")>>)]

\* a summary payload that also carries a sentiment object without "overall"
RowSummary ==
    [analysis_type |-> "summary", created_at |-> 1,
     result |->
        ("summary" :> Str("Two advisories were published."))
        @@ ("key_points" :> List(<<Str(InsightStrings[2]), Str(InsightStrings[4])>>))
        @@ ("sentiment" :> Obj("confidence" :> Num(1)))]

\* a summary payload with twelve key points
RowManyInsights ==
    [analysis_type |-> "summary", created_at |-> 2,
     result |->
        ("summary" :> Str("Hardening backlog."))
        @@ ("key_points" :> List([i \in 1..12 |-> Str(InsightStrings[i + 4])]))]

RowSentiment(sentiment, at) ==
    [analysis_type |-> "sentiment", created_at |-> at,
     result |-> "sentiment" :> sentiment]

\* the record analyze returns when the call or the parse step failed
RowError ==
    [analysis_type |-> "comprehensive", created_at |-> 4,
     result |-> ("error" :> Str("ReadTimeout")) @@ ("processing_time" :> Num(60))
                @@ ("model" :> Str(AIAnalyzerInit.model))]

\* the record _structure_result gives for text that is not JSON
RowRaw ==
    [analysis_type |-> "sentiment", created_at |-> 4,
     result |-> ("analysis_type" :> Str("sentiment")) @@ ("raw_response" :> Str(TextProse))
                @@ ("parsed" :> Bool(FALSE))]

\* payloads of shapes the prompts do not ask for
RowSentimentList ==
    RowSentiment(List(<<Str("positive"), Str("negative")>>), 2)
RowMentionsText ==
    [analysis_type |-> "trend", created_at |-> 3,
     result |-> "trends" :> List(<<Trend("security", Str("many"), "neutral")>>)]

AggFixtures ==
    {RowComprehensive, RowTrend, RowSummary, RowManyInsights,
     RowSentiment(Str("negative"), 1),
     RowSentiment(Str("mixed"), 2), RowError, RowSentimentList, RowMentionsText}

SentimentFixtures ==
    {RowSentiment(Str("positive"), 1), RowSentiment(Str("negative"), 2),
     RowSentiment(Obj("overall" :> Str("neutral")), 3), RowRaw}

(***************************************************************************)
(* generate_insights called on the stored rows; the process may be         *)
(* restarted between two calls.                                            *)
(***************************************************************************)
GenerateInsights ==
    /\ Len(runs) < MaxRuns
    /\ now' = now + 1
    /\ runs' = Append(runs, [seed |-> hash_seed,
                             outcome |-> GenerateInsightsOf(analyses, hash_seed, now')])
    /\ UNCHANGED <<analyses, hash_seed>>
    /\ UNCHANGED engineVars
    /\ UNCHANGED apiVars
    /\ UNCHANGED serviceVars

Restart ==
    /\ Len(runs) < MaxRuns
    /\ hash_seed' \in HashSeeds \ {hash_seed}
    /\ UNCHANGED <<analyses, runs, now>>
    /\ UNCHANGED engineVars
    /\ UNCHANGED apiVars
    /\ UNCHANGED serviceVars

AggInit ==
    /\ EngineInit
    /\ ApiIdle
    /\ ServiceIdle
    /\ analyses \in SeqsUpTo(AggFixtures, MaxRows)
    /\ hash_seed \in HashSeeds
    /\ runs = <<>>

AggNext == GenerateInsights \/ Restart

AggSpec == AggInit /\ [][AggNext]_vars

SentimentInit ==
    /\ EngineInit
    /\ ApiIdle
    /\ ServiceIdle
    /\ analyses \in SeqsUpTo(SentimentFixtures, MaxSentimentRows)
    /\ hash_seed = 1
    /\ runs = <<>>

SentimentNext == GenerateInsights

SentimentSpec == SentimentInit /\ [][SentimentNext]_vars

(***************************************************************************)
(* Trend payloads: one topic scored in several results, and one result     *)
(* with more topics than the limit, some of them with equal mentions.      *)
(***************************************************************************)
MaxTrendRows == 4

RowTrendPositive ==
    [analysis_type |-> "trend", created_at |-> 1,
     result |-> "trends" :> List(<<Trend("cve", Num(1), "positive")>>)]

RowTrendNegative ==
    [analysis_type |-> "trend", created_at |-> 2,
     result |-> "trends" :> List(<<Trend("cve", Num(1), "negative")>>)]

\* a trend without the key sentiment
RowTrendUnscored ==
    [analysis_type |-> "trend", created_at |-> 3,
     result |-> "trends" :> List(<<Obj(("topic" :> Str("cve")) @@ ("mentions" :> Num(1)))>>)]

ManyTopics ==
    <<Trend("t01", Num(4), "positive"), Trend("t02", Num(2), "neutral"),
      Trend("t03", Num(2), "negative"), Trend("t04", Num(6), "positive"),
      Trend("t05", Num(2), "mixed"), Trend("t06", Num(1), "positive"),
      Trend("t07", Num(3), "negative"), Trend("t08", Num(3), "positive"),
      Trend("t09", Num(5), "neutral"), Trend("t10", Num(1), "negative"),
      Trend("t11", Num(7), "positive")>>

RowManyTopics ==
    [analysis_type |-> "comprehensive", created_at |-> 4,
     result |-> "trends" :> List(ManyTopics)]

TrendFixtures == {RowTrendPositive, RowTrendNegative, RowTrendUnscored, RowManyTopics}

TrendInit ==
    /\ EngineInit
    /\ ApiIdle
    /\ ServiceIdle
    /\ analyses \in SeqsUpTo(TrendFixtures, MaxTrendRows)
    /\ hash_seed = 1
    /\ runs = <<>>

TrendNext == GenerateInsights

TrendSpec == TrendInit /\ [][TrendNext]_vars

(***************************************************************************)
(* ReportGenerator: the summary text and the exports of a stored report.   *)
(***************************************************************************)
\* the keys of the dict sentiments (and of percentages) in insertion order
SentimentKeys == <<"positive", "negative", "neutral">>

\* str(x) of a float that round(_, 2) gave, from its value in hundredths
FloatRepr(h) ==
    ToString(h \div 100) \o "."
    \o (IF h % 10 = 0 THEN ToString((h % 100) \div 10) ELSE TwoDigits(h % 100))

\* f"{pcts[k]}": the percentages are floats, or the int 0 each when no sentiment
\* was counted
PercentText(pcts, k) ==
    IF \A b \in DOMAIN pcts : pcts[b] = 0 THEN "0" ELSE FloatRepr(pcts[k])

\* max(pcts.items(), key=lambda x: x[1]): of the items with the greatest value, the
\* one that comes first in the dict's order
MaxItemLast(pcts) ==
    LET greatest == {i \in DOMAIN SentimentKeys :
                       \A j \in DOMAIN SentimentKeys :
                           pcts[SentimentKeys[j]] <= pcts[SentimentKeys[i]]}
    IN  SentimentKeys[Max(greatest)]

MaxItem(pcts) ==
    LET greatest == {i \in DOMAIN SentimentKeys :
                       \A j \in DOMAIN SentimentKeys :
                           pcts[SentimentKeys[j]] <= pcts[SentimentKeys[i]]}
    IN  SentimentKeys[Min(greatest)]

\* sep.join(parts)
RECURSIVE Join(_, _)
Join(parts, sep) ==
    IF parts = <<>> THEN ""
    ELSE IF Len(parts) = 1 THEN parts[1]
    ELSE parts[1] \o sep \o Join(Tail(parts), sep)

\* generate_summary: the trends sentence
TrendsSentenceOfAll(trends) ==
    "Top trending topics include: "
    \o Join([i \in DOMAIN trends |-> trends[i].topic.v], ", ") \o "."

TrendsSentence(trends) ==
    LET top_3 == Take(trends, 3) IN
    "Top trending topics include: "
    \o Join([i \in DOMAIN top_3 |-> top_3[i].topic.v], ", ") \o "."

GenerateSummary(insights) ==
    LET total == DictGet(insights, "total_analyses", 0)
        sentiment == DictGet(insights, "sentiment_distribution", EmptyDict)
        trends == DictGet(insights, "top_trends", <<>>)
        count_part ==
            <<"Analysis of " \o ToString(total)
              \o " data points collected during the specified period.">>
        sentiment_part ==
            IF DOMAIN sentiment # {} /\ "percentages" \in DOMAIN sentiment
            THEN LET pcts == sentiment.percentages
                     dominant == MaxItem(pcts)
                 IN  <<"Overall sentiment is predominantly " \o dominant
                       \o " (" \o PercentText(pcts, dominant) \o "%).">>
            ELSE <<>>
        trends_part == IF trends # <<>> THEN <<TrendsSentence(trends)>> ELSE <<>>
    IN  Join(count_part \o sentiment_part \o trends_part, " ")

\* str(datetime)
StrDatetime(t) ==
    "2024-01-01 " \o TwoDigits((t \div 3600) % 24) \o ":"
    \o TwoDigits((t \div 60) % 60) \o ":" \o TwoDigits(t % 60)

\* export_pdf
PdfPlaceholder == "PDF export not yet implemented"

ExportPdfNumbered(report) == PdfPlaceholder \o " for report " \o ToString(report.id)

ExportPdf(report) == PdfPlaceholder

\* _render_sentiment_html (in the HTML texts a run of white space is written as one
\* space, and the constant style sheet of the head is left out)
RenderSentimentHtml(sentiment) ==
    IF DOMAIN sentiment = {} \/ "percentages" \notin DOMAIN sentiment
    THEN "<p>No sentiment data available</p>"
    ELSE LET pcts == sentiment.percentages IN
         "<p>Positive: " \o PercentText(pcts, "positive") \o "%</p> "
         \o "<p>Neutral: " \o PercentText(pcts, "neutral") \o "%</p> "
         \o "<p>Negative: " \o PercentText(pcts, "negative") \o "%</p>"

\* _render_trends_html
RenderTrendsHtml(trends) ==
    IF trends = <<>> THEN "<p>No trends data available</p>"
    ELSE Join([i \in DOMAIN trends |->
                 "<div class=\"trend\"> <strong>" \o trends[i].topic.v \o "</strong> - "
                 \o ToString(trends[i].total_mentions) \o " mentions ("
                 \o trends[i].overall_sentiment \o " sentiment) </div>"], " ")

\* export_html: the f-string, values interpolated as they are
ExportHtml(report) ==
    LET insights == report.insights
        key_insights == DictGet(insights, "key_insights", <<>>)
    IN  "<!DOCTYPE html> <html> <head> <title>" \o report.title \o "</title> </head> "
        \o "<body> <h1>" \o report.title \o "</h1> "
        \o "<p><strong>Period:</strong> " \o StrDatetime(report.period_start)
        \o " to " \o StrDatetime(report.period_end) \o "</p> "
        \o "<p><strong>Generated:</strong> " \o StrDatetime(report.created_at) \o "</p> "
        \o "<h2>Summary</h2> <p>" \o report.summary \o "</p> "
        \o "<h2>Sentiment Distribution</h2> <div class=\"metric\"> "
        \o RenderSentimentHtml(DictGet(insights, "sentiment_distribution", EmptyDict))
        \o " </div> <h2>Top Trends</h2> "
        \o RenderTrendsHtml(DictGet(insights, "top_trends", <<>>))
        \o " <h2>Key Insights</h2> <ul> "
        \o Join([i \in DOMAIN key_insights |->
                   "<li>" \o key_insights[i].v \o "</li>"], "")
        \o " </ul> </body> </html>"

(***************************************************************************)
(* The reports API: generate_report and export_report over the tables      *)
(* analyses and reports.                                                   *)
(***************************************************************************)
MaxReports == 2

\* a row of the table analyses: a payload with its id, source and creation time
Stored(row, id, source_id, at) ==
    [id |-> id, source_id |-> source_id, analysis_type |-> row.analysis_type,
     result |-> row.result, created_at |-> at]

\* a comprehensive payload with a neutral sentiment and two trends
RowNeutralWithTrends ==
    [analysis_type |-> "comprehensive", created_at |-> 3,
     result |->
        ("sentiment" :> Obj("overall" :> Str("neutral")))
        @@ ("trends" :> List(<<Trend("cve", Num(2), "positive"),
                               Trend("kev", Num(1), "negative")>>))
        @@ ("key_insights" :> List(<<Str(InsightStrings[1]), Str(InsightStrings[2])>>))]

StoredAnalyses ==
    <<Stored(RowSentiment(Str("positive"), 1), 1, 1, 1),
      Stored(RowSentiment(Str("negative"), 2), 2, 2, 2),
      Stored(RowNeutralWithTrends, 3, 2, 3),
      Stored(RowTrendPositive, 4, 2, 4),
      Stored(RowManyTopics, 5, 2, 5),
      Stored(RowMentionsText, 6, 3, 6)>>

\* ReportCreate: the request bodies sent
PeriodStarts == {1, 4}
PeriodEnds == {3, 6}
SourceFilters == {Null, List(<<>>), List(<<1>>), List(<<2>>)}

ReportRequests ==
    [title : {"R&D <weekly>"}, report_type : {"custom"},
     period_start : PeriodStarts, period_end : PeriodEnds, source_ids : SourceFilters]

\* export_report: the values of the query parameter format
Formats == {"json", "pdf", "html", "xml", "HTML"}

HTTPException(status_code, detail) == [status |-> status_code, detail |-> detail]

\* the response to an exception no handler catches
InternalServerError == [status |-> 500, detail |-> "Internal Server Error"]

NoResponse == [status |-> 0]

\* generate_report: the query, rows in id order; a source_ids that is None or
\* empty does not filter
QueryAnalyses(rows, report_data) ==
    SelectSeq(rows, LAMBDA a :
        /\ a.created_at >= report_data.period_start
        /\ a.created_at <= report_data.period_end
        /\ Truthy(report_data.source_ids) =>
              \E i \in DOMAIN report_data.source_ids.v :
                  report_data.source_ids.v[i] = a.source_id)

\* Report(...), db.add, db.commit, db.refresh: the row with its id and created_at
NewReport(report_data, summary, insights, id, t) ==
    [id |-> id, title |-> report_data.title, report_type |-> report_data.report_type,
     period_start |-> report_data.period_start, period_end |-> report_data.period_end,
     summary |-> summary, insights |-> insights, created_at |-> t]

\* generate_report with the request body report_data
GenerateReportOf(report_data) ==
    /\ LET found == QueryAnalyses(analyses, report_data)
           insights == GenerateInsightsOf(found, hash_seed, now + 1)
       IN  IF found = <<>>
           THEN /\ response' = [request |-> report_data] @@
                       HTTPException(404, "No analyses found for the specified period")
                /\ UNCHANGED <<reports, report_seq, now>>
           ELSE IF insights.raised
           THEN /\ response' = [request |-> report_data] @@ InternalServerError
                /\ UNCHANGED <<reports, report_seq, now>>
           ELSE LET report == NewReport(report_data, GenerateSummary(insights.value),
                                        insights.value, report_seq + 1, now + 1)
                IN  /\ reports' = Append(reports, report)
                    /\ report_seq' = report_seq + 1
                    /\ response' = [request |-> report_data, status |-> 201,
                                    body |-> report]
                    /\ now' = now + 1
    /\ UNCHANGED <<analyses, hash_seed, runs>>
    /\ UNCHANGED engineVars
    /\ UNCHANGED serviceVars

GenerateReport ==
    /\ report_seq < MaxReports
    /\ \E report_data \in ReportRequests : GenerateReportOf(report_data)

\* export_report: the json branch
ExportJsonWithoutTimestamp(report) ==
    [key \in (DOMAIN report.insights) \ {"generated_at"} |-> report.insights[key]]

ExportJson(report) == report.insights

\* export_report: the else branch
UnsupportedFormatBare(format) ==
    HTTPException(400, "Unsupported format")

UnsupportedFormat(format) ==
    HTTPException(400, "Unsupported format: " \o format \o ". Use json, pdf, or html")

ExportReportOf(rows, report_id, format) ==
    LET matches == SelectSeq(rows, LAMBDA r : r.id = report_id) IN
    IF matches = <<>>
    THEN HTTPException(404, "Report with ID " \o ToString(report_id) \o " not found")
    ELSE LET report == matches[1] IN
         CASE format = "json" -> [status |-> 200, body |-> ExportJson(report)]
           [] format = "pdf" ->
                [status |-> 200, content |-> ExportPdf(report),
                 media_type |-> "application/pdf",
                 headers |-> [content_disposition |->
                    "attachment; filename=report_" \o ToString(report_id) \o ".pdf"]]
           [] format = "html" ->
                [status |-> 200, content |-> ExportHtml(report), media_type |-> "text/html"]
           [] OTHER -> UnsupportedFormat(format)

\* export_report of report_id with the query parameter format
ExportReportAs(report_id, format) ==
    /\ response' = [request |-> [report_id |-> report_id, format |-> format]]
                        @@ ExportReportOf(reports, report_id, format)
    /\ UNCHANGED <<reports, report_seq, now>>
    /\ UNCHANGED <<analyses, hash_seed, runs>>
    /\ UNCHANGED engineVars
    /\ UNCHANGED serviceVars

ExportReport ==
    \E report_id \in 1..(MaxReports + 1), format \in Formats :
        ExportReportAs(report_id, format)

ReportInit ==
    /\ EngineInit
    /\ analyses = StoredAnalyses
    /\ hash_seed = 1
    /\ runs = <<>>
    /\ reports = <<>>
    /\ report_seq = 0
    /\ response = NoResponse
    /\ ServiceIdle

ReportNext == GenerateReport \/ ExportReport

ReportSpec == ReportInit /\ [][ReportNext]_vars

(***************************************************************************)
(* Claims about generate_insights.                                         *)
(***************************************************************************)
Returned(k) == ~runs[k].outcome.raised
Insights(k) == runs[k].outcome.value

WithoutGeneratedAt(outcome) ==
    IF outcome.raised \/ "generated_at" \notin DOMAIN outcome.value THEN outcome
    ELSE Return([key \in (DOMAIN outcome.value) \ {"generated_at"} |-> outcome.value[key]])

\* C6: two generate_insights calls on the same unchanged collection give identical
\* Insights: same fields, same values, same order of trends and of insight strings.
\* (The generation timestamp, a clock reading, is left out of the comparison.)
C6_InsightsDeterministic ==
    \A j, k \in DOMAIN runs :
        WithoutGeneratedAt(runs[j].outcome) = WithoutGeneratedAt(runs[k].outcome)

\* C7: generate_insights returns an aggregate, and does not raise, whatever keys
\* the payloads miss or hold in another shape.
C7_AggregationTolerant ==
    \A k \in DOMAIN runs : Returned(k)

\* The result's sentiment is the flat string b or an object whose overall is b
SentimentIs(row, b) ==
    /\ "sentiment" \in DOMAIN row.result
    /\ LET sentiment_data == row.result["sentiment"] IN
        \/ sentiment_data = Str(b)
        \/ /\ sentiment_data.t = "obj"
           /\ "overall" \in DOMAIN sentiment_data.v
           /\ sentiment_data.v["overall"] = Str(b)

\* The result's sentiment is an object without the key overall
SentimentLacksOverall(row) ==
    /\ "sentiment" \in DOMAIN row.result
    /\ row.result["sentiment"].t = "obj"
    /\ "overall" \notin DOMAIN row.result["sentiment"].v

\* The result's sentiment, or its overall, is a list or an object
SentimentUnhashable(row) ==
    /\ "sentiment" \in DOMAIN row.result
    /\ LET sentiment_data == row.result["sentiment"] IN
        \/ sentiment_data.t = "list"
        \/ /\ sentiment_data.t = "obj"
           /\ "overall" \in DOMAIN sentiment_data.v
           /\ sentiment_data.v["overall"].t \in {"list", "obj"}

SentimentCountsOf(k) == Insights(k)["sentiment_distribution"].counts

\* C8 as stated: the count of bucket b is the number of results whose sentiment is
\* the flat string b or an object whose overall is b; there are no other buckets.
C8_SentimentCountsByOverall ==
    \A k \in DOMAIN runs :
        (analyses # <<>> /\ Returned(k)) =>
            /\ DOMAIN SentimentCountsOf(k) = Buckets
            /\ \A b \in Buckets :
                SentimentCountsOf(k)[b] =
                    Cardinality({i \in DOMAIN analyses : SentimentIs(analyses[i], b)})

\* C8 as amended: the count of bucket b is the number of results whose sentiment is
\* the flat string b or an object whose overall is b, an object without overall
\* counting as neutral; there are no other buckets; and a sentiment (or overall)
\* that is a list or an object makes the aggregation raise.
C8_SentimentCountsWithDefault ==
    \A k \in DOMAIN runs :
        analyses # <<>> =>
            /\ (\E i \in DOMAIN analyses : SentimentUnhashable(analyses[i]))
                    => ~Returned(k)
            /\ Returned(k) =>
                /\ DOMAIN SentimentCountsOf(k) = Buckets
                /\ \A b \in Buckets :
                    SentimentCountsOf(k)[b] =
                        Cardinality({i \in DOMAIN analyses :
                            \/ SentimentIs(analyses[i], b)
                            \/ b = "neutral" /\ SentimentLacksOverall(analyses[i])})

C8_Witness ==
    /\ Len(runs) > 0
    /\ Returned(1)
    /\ analyses = <<RowComprehensive, RowSummary, RowSentiment(Str("mixed"), 2)>>
    /\ SentimentCountsOf(1) = [positive |-> 1, negative |-> 0, neutral |-> 1]

Abs(n) == IF n < 0 THEN -n ELSE n

SentimentPercentagesOf(k) == Insights(k)["sentiment_distribution"].percentages

\* C9: with total the sum of the three counts, each percentage (held in hundredths)
\* is count / total x 100 rounded to 2 decimals when total > 0, so that counts
\* 3, 1, 1 give 60.0, 20.0, 20.0; when total is 0 every percentage is 0 and the
\* aggregation does not fail on a division by zero.
C9_SentimentPercentages ==
    \A k \in DOMAIN runs :
        analyses # <<>> =>
            /\ Returned(k)
            /\ LET counts == SentimentCountsOf(k)
                   pcts == SentimentPercentagesOf(k)
                   total == counts["positive"] + counts["negative"] + counts["neutral"]
               IN  /\ DOMAIN pcts = Buckets
                   /\ total = 0 => \A b \in Buckets : pcts[b] = 0
                   /\ total > 0 =>
                        \A b \in Buckets :
                            2 * Abs(pcts[b] * total - counts[b] * 10000) <= total
                   /\ counts = [positive |-> 3, negative |-> 1, neutral |-> 1]
                        => pcts = [positive |-> 6000, negative |-> 2000, neutral |-> 2000]

C9_Witness ==
    /\ Len(runs) > 0
    /\ Returned(1)
    /\ Len(analyses) = 5
    /\ SentimentCountsOf(1) = [positive |-> 3, negative |-> 1, neutral |-> 1]
    /\ SentimentPercentagesOf(1) = [positive |-> 6000, negative |-> 2000, neutral |-> 2000]

\* Every entry of every trends list, in input order
RECURSIVE AllTrends(_, _)
AllTrends(rows, k) ==
    IF k = 0 THEN <<>>
    ELSE AllTrends(rows, k - 1)
         \o (IF "trends" \in DOMAIN rows[k].result /\ rows[k].result["trends"].t = "list"
             THEN rows[k].result["trends"].v ELSE <<>>)

HasTopic(trend, topic) ==
    trend.t = "obj" /\ "topic" \in DOMAIN trend.v /\ trend.v["topic"] = topic

\* The sum of the mentions of the entries of a topic, an entry without mentions
\* counting as 1
RECURSIVE MentionsOfTopic(_, _)
MentionsOfTopic(trends, topic) ==
    IF trends = <<>> THEN 0
    ELSE (IF ~HasTopic(Head(trends), topic) THEN 0
          ELSE IF "mentions" \in DOMAIN Head(trends).v THEN Head(trends).v["mentions"].v
          ELSE 1)
         + MentionsOfTopic(Tail(trends), topic)

\* The non-empty topic strings that occur in the trends lists
TopicsOf(trends) ==
    {trends[i].v["topic"] :
        i \in {j \in DOMAIN trends :
                 /\ trends[j].t = "obj"
                 /\ "topic" \in DOMAIN trends[j].v
                 /\ trends[j].v["topic"].t = "str"
                 /\ trends[j].v["topic"].v # ""}}

\* C10: the entries of all trends lists are merged by exact topic: a topic has one
\* merged entry, and its total_mentions is the sum of the mentions of its entries,
\* an entry without mentions counting as 1 (5 and 3 mentions merge into 8).
C10_TrendMerging ==
    \A k \in DOMAIN runs :
        (analyses # <<>> /\ Returned(k)) =>
            LET top_trends == Insights(k)["top_trends"]
                trends == AllTrends(analyses, Len(analyses))
            IN  /\ \A i \in DOMAIN top_trends :
                    top_trends[i].total_mentions
                        = MentionsOfTopic(trends, top_trends[i].topic)
                /\ \A i, j \in DOMAIN top_trends :
                    top_trends[i].topic = top_trends[j].topic => i = j
                /\ Cardinality(TopicsOf(trends)) <= TrendLimit =>
                    \A topic \in TopicsOf(trends) :
                        \E i \in DOMAIN top_trends : top_trends[i].topic = topic

C10_Witness ==
    /\ Len(runs) > 0
    /\ Returned(1)
    /\ analyses = <<RowComprehensive, RowTrend>>
    /\ Insights(1)["top_trends"] =
        <<[topic |-> Str("security"), total_mentions |-> 8, overall_sentiment |-> "neutral"],
          [topic |-> Str("release"), total_mentions |-> 3, overall_sentiment |-> "neutral"]>>

\* The entries of a topic (their places in the trends lists taken in input order),
\* and those of them whose sentiment is b
EntriesOfTopic(trends, topic) ==
    {j \in DOMAIN trends : HasTopic(trends[j], topic)}

EntriesWithSentiment(trends, topic, b) ==
    {j \in EntriesOfTopic(trends, topic) :
        "sentiment" \in DOMAIN trends[j].v /\ trends[j].v["sentiment"] = Str(b)}

\* C11: a merged topic's overall_sentiment follows the mean of its entries' scores
\* (positive +1, negative -1, anything else or no sentiment 0): positive when the
\* mean is above 0.3, negative when it is below -0.3, neutral otherwise; one positive
\* and one negative entry of a topic give neutral.
C11_TrendOverallSentiment ==
    \A k \in DOMAIN runs :
        (analyses # <<>> /\ Returned(k)) =>
            LET top_trends == Insights(k)["top_trends"]
                trends == AllTrends(analyses, Len(analyses))
            IN  \A i \in DOMAIN top_trends :
                    LET topic == top_trends[i].topic
                        n == Cardinality(EntriesOfTopic(trends, topic))
                        p == Cardinality(EntriesWithSentiment(trends, topic, "positive"))
                        m == Cardinality(EntriesWithSentiment(trends, topic, "negative"))
                        overall == top_trends[i].overall_sentiment
                    IN  /\ n > 0
                        /\ overall \in Buckets
                        /\ (overall = "positive") <=> (10 * (p - m) > 3 * n)
                        /\ (overall = "negative") <=> (10 * (p - m) < -3 * n)
                        /\ (n = 2 /\ p = 1 /\ m = 1) => overall = "neutral"

\* one positive entry among four: the mean 0.25 is not above 0.3
C11_Witness ==
    /\ Len(runs) > 0
    /\ Returned(1)
    /\ analyses = <<RowTrendPositive, RowTrendUnscored, RowTrendUnscored, RowTrendUnscored>>
    /\ Insights(1)["top_trends"] =
        <<[topic |-> Str("cve"), total_mentions |-> 4, overall_sentiment |-> "neutral"]>>

\* Topic a ranks before topic b: more mentions, or as many and encountered first
RanksBefore(trends, a, b) ==
    \/ MentionsOfTopic(trends, a) > MentionsOfTopic(trends, b)
    \/ /\ MentionsOfTopic(trends, a) = MentionsOfTopic(trends, b)
       /\ Min(EntriesOfTopic(trends, a)) < Min(EntriesOfTopic(trends, b))

\* C12: the trend list is in descending order of total_mentions, topics with equal
\* total_mentions in the order in which they were first encountered; it is the
\* first 10 entries of that ordering: never more than 10 entries, all topics when
\* there are at most 10, and every omitted topic ranks after every included one.
C12_TrendRanking ==
    \A k \in DOMAIN runs :
        (analyses # <<>> /\ Returned(k)) =>
            LET top_trends == Insights(k)["top_trends"]
                trends == AllTrends(analyses, Len(analyses))
                topics == TopicsOf(trends)
                included == {top_trends[i].topic : i \in DOMAIN top_trends}
            IN  /\ Len(top_trends) <= 10
                /\ Len(top_trends) = (IF Cardinality(topics) < 10
                                      THEN Cardinality(topics) ELSE 10)
                /\ included \subseteq topics
                /\ \A i, j \in DOMAIN top_trends :
                    i < j => RanksBefore(trends, top_trends[i].topic, top_trends[j].topic)
                /\ \A a \in included : \A b \in topics \ included :
                    /\ RanksBefore(trends, a, b)
                    /\ MentionsOfTopic(trends, b) <= MentionsOfTopic(trends, a)

\* twelve topics, three of them with one mention: the one encountered first stays
C12_Witness ==
    /\ Len(runs) > 0
    /\ Returned(1)
    /\ analyses = <<RowTrendPositive, RowManyTopics>>
    /\ [i \in 1..10 |-> Insights(1)["top_trends"][i].topic.v] =
        <<"t11", "t04", "t09", "t01", "t07", "t08", "t02", "t03", "t05", "cve">>

\* The strings of key_insights, recommendations and key_points of all results, in
\* input order
RECURSIVE AllInsights(_, _)
AllInsights(rows, k) ==
    IF k = 0 THEN <<>>
    ELSE LET result == rows[k].result
             Field(key) == IF key \in DOMAIN result /\ result[key].t = "list"
                           THEN result[key].v ELSE <<>>
         IN  AllInsights(rows, k - 1) \o Field("key_insights")
                \o Field("recommendations") \o Field("key_points")

\* The distinct elements of a sequence, each at its first occurrence
RECURSIVE FirstSeen(_)
FirstSeen(q) ==
    IF q = <<>> THEN <<>>
    ELSE LET front == FirstSeen(SubSeq(q, 1, Len(q) - 1))
             last == q[Len(q)]
         IN  IF \E i \in DOMAIN front : front[i] = last THEN front
             ELSE Append(front, last)

\* C13: the key-insight list is in first-seen order of the concatenation of
\* key_insights, recommendations and key_points over the results in input order;
\* with more than 15 distinct strings it is the first 15 distinct strings seen.
C13_KeyInsightsFirstSeenOrder ==
    \A k \in DOMAIN runs :
        (analyses # <<>> /\ Returned(k)) =>
            LET seen == FirstSeen(AllInsights(analyses, Len(analyses)))
            IN  Insights(k)["key_insights"]
                    = SubSeq(seen, 1, IF Len(seen) < 15 THEN Len(seen) ELSE 15)

\* C14: the key-insight list has no two equal strings and at most 15 entries, holds
\* only strings of some result's key_insights, recommendations or key_points, and
\* holds every distinct such string when there are 15 or fewer.
C14_KeyInsightsDistinctAndCapped ==
    \A k \in DOMAIN runs :
        (analyses # <<>> /\ Returned(k)) =>
            LET key_insights == Insights(k)["key_insights"]
                all == AllInsights(analyses, Len(analyses))
                occurring == {all[i] : i \in DOMAIN all}
                kept == {key_insights[i] : i \in DOMAIN key_insights}
            IN  /\ \A i, j \in DOMAIN key_insights :
                    key_insights[i] = key_insights[j] => i = j
                /\ Len(key_insights) <= 15
                /\ kept \subseteq occurring
                /\ Cardinality(occurring) <= 15 => kept = occurring
                /\ Cardinality(occurring) > 15 => Len(key_insights) = 15

\* sixteen distinct strings, one of them given by two results: fifteen are kept
C14_Witness ==
    /\ Len(runs) > 0
    /\ Returned(1)
    /\ analyses = <<RowComprehensive, RowSummary, RowManyInsights>>
    /\ Len(AllInsights(analyses, 3)) = 17
    /\ Len(Insights(1)["key_insights"]) = 15

\* The sum of the values of a mapping
RECURSIVE SumOfValues(_)
SumOfValues(f) ==
    IF DOMAIN f = {} THEN 0
    ELSE LET key == CHOOSE x \in DOMAIN f : TRUE
         IN  f[key] + SumOfValues([x \in (DOMAIN f) \ {key} |-> f[x]])

\* C15: on a non-empty collection by_type has exactly the analysis types that occur
\* as keys, each mapped to the number of results of that type; the counts sum to the
\* activity total, which equals total_analyses and the length of the input.
C15_ActivitySummary ==
    \A k \in DOMAIN runs :
        (analyses # <<>> /\ Returned(k)) =>
            LET activity == Insights(k)["activity_summary"] IN
            /\ DOMAIN activity.by_type = {analyses[i].analysis_type : i \in DOMAIN analyses}
            /\ \A atype \in DOMAIN activity.by_type :
                activity.by_type[atype] =
                    Cardinality({i \in DOMAIN analyses : analyses[i].analysis_type = atype})
            /\ SumOfValues(activity.by_type) = activity.total
            /\ activity.total = Insights(k)["total_analyses"]
            /\ activity.total = Len(analyses)

C15_Witness ==
    /\ Len(runs) > 0
    /\ Returned(1)
    /\ analyses = <<RowSummary, RowComprehensive, RowManyInsights>>
    /\ Insights(1)["activity_summary"] =
        [by_type |-> ("summary" :> 2) @@ ("comprehensive" :> 1), total |-> 3]

(***************************************************************************)
(* Claims about the summary and the reports API.                           *)
(***************************************************************************)
PercentagesOfReport(report) == report.insights["sentiment_distribution"].percentages

CountSentence(total) ==
    "Analysis of " \o ToString(total)
    \o " data points collected during the specified period."

DominantSentence(b, pcts) ==
    "Overall sentiment is predominantly " \o b \o " (" \o PercentText(pcts, b) \o "%)."

\* Bucket b has the highest percentage and no bucket before it in the precedence
\* positive, negative, neutral has the same
IsDominant(b, pcts) ==
    /\ \A c \in Buckets : pcts[c] <= pcts[b]
    /\ b = "negative" => pcts["positive"] < pcts[b]
    /\ b = "neutral" => pcts["positive"] < pcts[b] /\ pcts["negative"] < pcts[b]

\* The names of the first min(3, n) trends, joined by comma
FirstTopics(trends) ==
    CASE Len(trends) = 1 -> trends[1].topic.v
      [] Len(trends) = 2 -> trends[1].topic.v \o ", " \o trends[2].topic.v
      [] Len(trends) >= 3 ->
            trends[1].topic.v \o ", " \o trends[2].topic.v \o ", " \o trends[3].topic.v

TrendsTail(trends) ==
    IF trends = <<>> THEN ""
    ELSE " Top trending topics include: " \o FirstTopics(trends) \o "."

\* C16: the summary names the bucket with the highest percentage, and of two or
\* three buckets sharing it the first in the precedence positive, negative, neutral;
\* equal percentages always give the same bucket.
C16_DominantSentiment ==
    \A i \in DOMAIN reports :
        LET pcts == PercentagesOfReport(reports[i])
            total == reports[i].insights["total_analyses"]
            trends == reports[i].insights["top_trends"]
        IN  /\ \E b \in Buckets :
                /\ IsDominant(b, pcts)
                /\ reports[i].summary =
                    CountSentence(total) \o " " \o DominantSentence(b, pcts)
                    \o TrendsTail(trends)
            /\ \A c \in Buckets :
                ~IsDominant(c, pcts) =>
                    reports[i].summary #
                        CountSentence(total) \o " " \o DominantSentence(c, pcts)
                        \o TrendsTail(trends)

\* negative and neutral share 50.0: negative is named
C16_Witness ==
    \E i \in DOMAIN reports :
        /\ PercentagesOfReport(reports[i])
                = [positive |-> 0, negative |-> 5000, neutral |-> 5000]
        /\ reports[i].summary =
            "Analysis of 2 data points collected during the specified period. "
            \o "Overall sentiment is predominantly negative (50.0%). "
            \o "Top trending topics include: cve, kev."

\* C17: the summary starts with the sentence giving the count of analyses; the
\* trends sentence is there exactly when the trend list is non-empty and names the
\* topics of the first min(3, n) ranked trends in rank order, joined by comma; the
\* sentences are joined by single spaces.
C17_SummaryComposition ==
    \A i \in DOMAIN reports :
        LET pcts == PercentagesOfReport(reports[i])
            total == reports[i].insights["total_analyses"]
            trends == reports[i].insights["top_trends"]
        IN  \E b \in Buckets :
                reports[i].summary =
                    CountSentence(total) \o " " \o DominantSentence(b, pcts)
                    \o TrendsTail(trends)

\* thirteen ranked trends: the first three are named
C17_Witness ==
    \E i \in DOMAIN reports :
        /\ Len(reports[i].insights["top_trends"]) = 10
        /\ reports[i].summary =
            "Analysis of 4 data points collected during the specified period. "
            \o "Overall sentiment is predominantly negative (50.0%). "
            \o "Top trending topics include: t11, t04, t09."

\* The response answers an export_report request, or a generate_report request
IsExport(resp) == "request" \in DOMAIN resp /\ "format" \in DOMAIN resp.request
IsGenerate(resp) == "request" \in DOMAIN resp /\ "period_start" \in DOMAIN resp.request

HasReport(id) == \E i \in DOMAIN reports : reports[i].id = id
ReportWithId(id) == CHOOSE r \in {reports[i] : i \in DOMAIN reports} : r.id = id

\* C18: export with format json of a stored report returns a value equal to the
\* report's stored insights, and the stored insights are the value written when the
\* report was generated: the one returned then, never changed afterwards.
C18_JsonExportIsIdentity ==
    /\ []((/\ IsExport(response)
           /\ response.request.format = "json"
           /\ HasReport(response.request.report_id)) =>
            /\ response.status = 200
            /\ response.body = ReportWithId(response.request.report_id).insights)
    /\ []((IsGenerate(response) /\ response.status = 201) =>
            /\ HasReport(response.body.id)
            /\ ReportWithId(response.body.id).insights = response.body.insights)
    /\ [][\A i \in DOMAIN reports :
            /\ i \in DOMAIN reports'
            /\ reports'[i].id = reports[i].id
            /\ reports'[i].insights = reports[i].insights]_vars

C18_Witness ==
    /\ Len(reports) = 2
    /\ IsExport(response)
    /\ response.request = [report_id |-> 1, format |-> "json"]
    /\ response.status = 200
    /\ response.body = reports[1].insights
    /\ response.body["total_analyses"] = 4

SupportedFormats == {"json", "html", "pdf"}

\* C19: export of a stored report with a format that is none of json, html, pdf
\* fails with an error of its own (status 400, used for nothing else) whose message
\* names the received value and the three supported formats, and leaves every
\* stored report as it was.
C19_UnsupportedFormat ==
    /\ []((/\ IsExport(response)
           /\ response.request.format \notin SupportedFormats
           /\ HasReport(response.request.report_id)) =>
            /\ response.status = 400
            /\ response.detail = "Unsupported format: " \o response.request.format
                                    \o ". Use json, pdf, or html")
    /\ [](response.status = 400 =>
            /\ IsExport(response)
            /\ response.request.format \notin SupportedFormats)
    /\ [][(/\ response' # response
           /\ IsExport(response')
           /\ response'.request.format \notin SupportedFormats) =>
            reports' = reports]_vars

C19_Witness ==
    /\ Len(reports) = 2
    /\ response = [request |-> [report_id |-> 2, format |-> "xml"], status |-> 400,
                   detail |-> "Unsupported format: xml. Use json, pdf, or html"]

\* The analyses a request asks for: created within the period, and of a source in
\* the filter when a filter is given
MatchingAnalyses(report_data) ==
    SelectSeq(analyses, LAMBDA a :
        /\ a.created_at >= report_data.period_start
        /\ a.created_at <= report_data.period_end
        /\ report_data.source_ids # Null =>
              \E i \in DOMAIN report_data.source_ids.v :
                  report_data.source_ids.v[i] = a.source_id)

\* C20: a generate_report request whose period and source filter match no analysis
\* is answered not found and stores nothing; one that matches at least one analysis
\* stores exactly one new report, whose insights and summary are computed from
\* exactly the matching analyses.
C20_ReportGenerationOverMatches ==
    [][(response' # response /\ IsGenerate(response')) =>
        LET matching == MatchingAnalyses(response'.request) IN
        /\ matching = <<>> => (response'.status = 404 /\ reports' = reports)
        /\ matching # <<>> =>
            /\ response'.status = 201
            /\ Len(reports') = Len(reports) + 1
            /\ SubSeq(reports', 1, Len(reports)) = reports
            /\ LET insights == GenerateInsightsOf(matching, hash_seed, now') IN
                /\ ~insights.raised
                /\ reports'[Len(reports')].insights = insights.value
                /\ reports'[Len(reports')].summary = GenerateSummary(insights.value)]_vars

(***************************************************************************)
(* Further claims about AIAnalyzer.                                        *)
(***************************************************************************)
\* C23: at every loop boundary of batch_analyze, after k items the accumulated
\* results are exactly the results of the first k items in input order, and
\* processing a later item leaves every entry already produced as it was.
C23_BatchPrefix ==
    /\ [](pc \in {"loop", "done"} =>
            /\ Len(results) = Len(calls)
            /\ Len(results) <= Len(items)
            /\ \A i \in 1..Len(results) :
                /\ CallIsForItem(i)
                /\ ResultOfItem(i) = Return(results[i]))
    /\ [][pc = "loop" =>
            /\ Len(results') >= Len(results)
            /\ SubSeq(results', 1, Len(results)) = results]_vars

\* the boundary after the first of two items, which failed
C23_Witness ==
    /\ pc = "loop"
    /\ Len(items) = 2
    /\ Len(results) = 1
    /\ calls[1].http.kind = "HTTPStatusError"
    /\ results[1]["error"] = Str("HTTPStatusError")

\* C28: whenever analyze returns without an error key, the result's analysis_type
\* is the type the caller passed (also an unrecognized one, for which the
\* comprehensive template is used, and also when the payload has its own
\* analysis_type), and the result's model is the engine's configured model even
\* when the payload has a model key.
C28_EngineFieldsOverride ==
    \A k \in 1..Len(calls) :
        (~calls[k].outcome.raised /\ "error" \notin DOMAIN calls[k].outcome.value) =>
            /\ {"analysis_type", "model"} \subseteq DOMAIN calls[k].outcome.value
            /\ calls[k].outcome.value["analysis_type"] = Str(analysis_type)
            /\ calls[k].outcome.value["model"] = Str(AIAnalyzerInit.model)
            /\ calls[k].request.messages[1].content.template =
                    (IF analysis_type \in AnalysisTypes THEN analysis_type
                     ELSE "comprehensive")

C28_Witness ==
    /\ analysis_type = "custom"
    /\ Len(results) > 0
    /\ calls[1].result = Return(Str(TextTagged))
    /\ JsonLoads(TextTagged).value.v["analysis_type"] = Str("other")
    /\ results[1]["analysis_type"] = Str("custom")
    /\ results[1]["model"] = Str(AIAnalyzerInit.model)
    /\ calls[1].request.messages[1].content.template = "comprehensive"

(***************************************************************************)
(* Further claims about generate_insights.                                 *)
(***************************************************************************)
\* The trend entry has a topic that is a non-empty string
IsNamed(trend) ==
    /\ trend.t = "obj"
    /\ "topic" \in DOMAIN trend.v
    /\ trend.v["topic"].t = "str"
    /\ trend.v["topic"].v # ""

\* The mentions of the entries that have a non-empty topic, a missing mentions
\* counting as 1
RECURSIVE NamedMentions(_)
NamedMentions(trends) ==
    IF trends = <<>> THEN 0
    ELSE (IF ~IsNamed(Head(trends)) THEN 0
          ELSE IF "mentions" \in DOMAIN Head(trends).v THEN Head(trends).v["mentions"].v
          ELSE 1)
         + NamedMentions(Tail(trends))

RECURSIVE TotalMentions(_)
TotalMentions(top_trends) ==
    IF top_trends = <<>> THEN 0
    ELSE Head(top_trends).total_mentions + TotalMentions(Tail(top_trends))

\* C30: every entry of the returned trend list has a non-empty topic and no two
\* entries share a topic; input entries whose topic is missing or empty are
\* skipped: they add to no merged topic's mentions and to no topic's sentiment.
C30_TrendTopicsNonEmptyAndUnique ==
    \A k \in DOMAIN runs :
        (analyses # <<>> /\ Returned(k)) =>
            LET top_trends == Insights(k)["top_trends"]
                trends == AllTrends(analyses, Len(analyses))
                named == {j \in DOMAIN trends : IsNamed(trends[j])}
            IN  /\ \A i \in DOMAIN top_trends :
                    /\ top_trends[i].topic.t = "str"
                    /\ top_trends[i].topic.v # ""
                    /\ \E j \in named : trends[j].v["topic"] = top_trends[i].topic
                /\ \A i, j \in DOMAIN top_trends :
                    i # j => top_trends[i].topic # top_trends[j].topic
                /\ Cardinality(TopicsOf(trends)) <= 10 =>
                    TotalMentions(top_trends) = NamedMentions(trends)
                /\ \A i \in DOMAIN top_trends :
                    LET own == {j \in named : trends[j].v["topic"] = top_trends[i].topic}
                        score(j) == IF "sentiment" \notin DOMAIN trends[j].v THEN 0
                                    ELSE IF trends[j].v["sentiment"] = Str("positive") THEN 1
                                    ELSE IF trends[j].v["sentiment"] = Str("negative") THEN -1
                                    ELSE 0
                        sum == Cardinality({j \in own : score(j) = 1})
                               - Cardinality({j \in own : score(j) = -1})
                    IN  top_trends[i].overall_sentiment =
                            (IF 10 * sum > 3 * Cardinality(own) THEN "positive"
                             ELSE IF 10 * sum < -3 * Cardinality(own) THEN "negative"
                             ELSE "neutral")

\* a trend without topic (9 mentions) and one with an empty topic (4 mentions,
\* positive) are in the input: neither shows in the list
C30_Witness ==
    /\ Len(runs) > 0
    /\ Returned(1)
    /\ analyses = <<RowTrend, RowComprehensive>>
    /\ NamedMentions(AllTrends(analyses, 2)) = 11
    /\ Insights(1)["top_trends"] =
        <<[topic |-> Str("security"), total_mentions |-> 8, overall_sentiment |-> "neutral"],
          [topic |-> Str("release"), total_mentions |-> 3, overall_sentiment |-> "neutral"]>>

\* The total_mentions a merged map or trend list gives a topic, 0 when it has none
MentionsIn(entries, topic) ==
    IF \E i \in DOMAIN entries : entries[i].topic = topic
    THEN (CHOOSE e \in {entries[i] : i \in DOMAIN entries} : e.topic = topic).total_mentions
    ELSE 0

TopicsIn(entries) == {entries[i].topic : i \in DOMAIN entries}

\* The count by_type gives an analysis type, 0 when it has none
CountIn(by_type, atype) == IF atype \in DOMAIN by_type THEN by_type[atype] ELSE 0

\* C24: for every split of the collection into two consecutive parts A and B, the
\* sentiment counts, the per-topic total_mentions (of the merged map, before the
\* cut to the top ten) and the per-type activity counts over A followed by B are
\* the pointwise sums of those over A and over B.
C24_AggregationMergesOverPartitions ==
    LET n == Len(analyses)
        counts == SentimentCounts(analyses, n)
        merged == TrendsMap(analyses, n)
        by_type == SummarizeActivity(analyses).by_type
    IN  (n > 0 /\ ~counts.raised /\ ~merged.raised) =>
        /\ \A m \in 0..n :
            LET A == SubSeq(analyses, 1, m)
                B == SubSeq(analyses, m + 1, n)
                countsA == SentimentCounts(A, Len(A))
                countsB == SentimentCounts(B, Len(B))
                mergedA == TrendsMap(A, Len(A))
                mergedB == TrendsMap(B, Len(B))
                by_typeA == SummarizeActivity(A).by_type
                by_typeB == SummarizeActivity(B).by_type
            IN  /\ ~countsA.raised /\ ~countsB.raised
                /\ \A b \in Buckets :
                        counts.value[b] = countsA.value[b] + countsB.value[b]
                /\ ~mergedA.raised /\ ~mergedB.raised
                /\ TopicsIn(merged.value)
                        = TopicsIn(mergedA.value) \cup TopicsIn(mergedB.value)
                /\ \A topic \in TopicsIn(merged.value) :
                        MentionsIn(merged.value, topic)
                            = MentionsIn(mergedA.value, topic) + MentionsIn(mergedB.value, topic)
                /\ DOMAIN by_type = (DOMAIN by_typeA) \cup (DOMAIN by_typeB)
                /\ \A atype \in DOMAIN by_type :
                        by_type[atype] = CountIn(by_typeA, atype) + CountIn(by_typeB, atype)
        \* and these are the values generate_insights returned
        /\ (Len(runs) > 0 /\ Returned(1)) =>
            /\ Insights(1)["sentiment_distribution"].counts = counts.value
            /\ Insights(1)["activity_summary"].by_type = by_type
            /\ Len(merged.value) <= TrendLimit =>
                \A topic \in TopicsIn(merged.value) :
                    MentionsIn(Insights(1)["top_trends"], topic)
                        = MentionsIn(merged.value, topic)

\* security has 5 mentions in the first part and 3 in the second, 8 in the whole
C24_Witness ==
    /\ Len(runs) > 0
    /\ Returned(1)
    /\ analyses = <<RowComprehensive, RowTrend, RowSummary>>
    /\ MentionsIn(TrendsMap(<<RowComprehensive>>, 1).value, Str("security")) = 5
    /\ MentionsIn(TrendsMap(<<RowTrend, RowSummary>>, 2).value, Str("security")) = 3
    /\ MentionsIn(Insights(1)["top_trends"], Str("security")) = 8
    /\ Insights(1)["activity_summary"].by_type =
        ("comprehensive" :> 1) @@ ("trend" :> 1) @@ ("summary" :> 1)

(***************************************************************************)
(* Further claims about export_report.                                     *)
(***************************************************************************)
\* html.escape: the text with its markup characters replaced by entities
EscapeChar(c) ==
    CASE c = "&" -> "&amp;"
      [] c = "<" -> "&lt;"
      [] c = ">" -> "&gt;"
      [] c = "\"" -> "&quot;"
      [] c = "'" -> "&#x27;"
      [] OTHER -> c

RECURSIVE HtmlEscape(_)
HtmlEscape(s) ==
    IF Len(s) <= 1 THEN EscapeChar(s)
    ELSE LET half == Len(s) \div 2
         IN  HtmlEscape(SubSeq(s, 1, half)) \o HtmlEscape(SubSeq(s, half + 1, Len(s)))

\* The report with its title, summary, trend topics and insight strings escaped
EscapedReport(report) ==
    LET insights == report.insights
        trends == DictGet(insights, "top_trends", <<>>)
        key_insights == DictGet(insights, "key_insights", <<>>)
    IN  [report EXCEPT
            !.title = HtmlEscape(@),
            !.summary = HtmlEscape(@),
            !.insights =
                ("top_trends" :> [i \in DOMAIN trends |->
                    [trends[i] EXCEPT !.topic = Str(HtmlEscape(@.v))]])
                @@ ("key_insights" :> [i \in DOMAIN key_insights |->
                    Str(HtmlEscape(key_insights[i].v))])
                @@ insights]

\* C26: the document of an HTML export is the template filled with the escaped
\* title, summary, trend topics and insight strings of the report, so no markup
\* character of a text field is in it as it stands.
C26_HtmlExportEscapes ==
    (IsExport(response) /\ response.request.format = "html"
        /\ HasReport(response.request.report_id)) =>
            response.content
                = ExportHtml(EscapedReport(ReportWithId(response.request.report_id)))

MaxInvocations == 2

\* the answers of the inference call given to concurrent callers
ConcurrentOutcomes ==
    {[kind |-> "ReadTimeout"],
     [kind |-> "body", body |-> Completion(Str(TextObject))],
     [kind |-> "body", body |-> Completion(Str(TextString))]}

\* analyze up to "await client.post(...)": start_time, the prompt, the request sent
AnalyzeStart ==
    /\ Len(invocations) < MaxInvocations
    /\ \E item \in ItemSamples, atype \in {"sentiment", "custom"} :
         LET prompt == BuildPrompt(ItemContent(item), atype, ItemMetadata(item))
         IN  invocations' = Append(invocations,
                [content |-> ItemContent(item), analysis_type |-> atype,
                 metadata |-> ItemMetadata(item), start_time |-> now,
                 request |-> InferenceRequest(engine, prompt),
                 awaiting |-> TRUE])
    /\ UNCHANGED <<engine, pc, items, analysis_type, results, calls, now>>
    /\ UNCHANGED aggVars
    /\ UNCHANGED apiVars
    /\ UNCHANGED <<sources, collected, collectors>>

\* the rest of analyze for the coroutine that reads the most recent arguments
AnalyzeResumedOfLatest(i, http, t1) ==
    LET latest == invocations[Len(invocations)]
    IN  Analyze(engine, latest.content, latest.analysis_type, latest.metadata, http,
                invocations[i].start_time, t1)

\* the rest of analyze for coroutine i, resumed at t1 with the answer http: it works
\* on its own locals and reads self.model
AnalyzeResumed(i, http, t1) ==
    LET own == invocations[i]
    IN  Analyze(engine, own.content, own.analysis_type, own.metadata, http,
                own.start_time, t1)

AnalyzeResume ==
    /\ \E i \in DOMAIN invocations, http \in ConcurrentOutcomes :
         /\ invocations[i].awaiting
         /\ invocations' = [invocations EXCEPT ![i] =
                [content |-> @.content, analysis_type |-> @.analysis_type,
                 metadata |-> @.metadata, start_time |-> @.start_time,
                 request |-> @.request, awaiting |-> FALSE,
                 http |-> http, end_time |-> now + 1,
                 outcome |-> AnalyzeResumed(i, http, now + 1)]]
    /\ now' = now + 1
    /\ UNCHANGED <<engine, pc, items, analysis_type, results, calls>>
    /\ UNCHANGED aggVars
    /\ UNCHANGED apiVars
    /\ UNCHANGED <<sources, collected, collectors>>

ConcurrentNext == AnalyzeStart \/ AnalyzeResume

ConcurrentSpec == Init /\ [][ConcurrentNext]_vars

\* C22: whatever the interleaving of the analyze coroutines, each one sent the
\* request built from its own content, type and metadata, returned what analyze
\* gives for those and for the answer it received, and the engine's configuration
\* is the one set at construction.
C22_ConcurrentCallsDoNotInterfere ==
    /\ engine = AIAnalyzerInit
    /\ \A i \in DOMAIN invocations :
        LET own == invocations[i] IN
        /\ own.request = InferenceRequest(AIAnalyzerInit,
                BuildPrompt(own.content, own.analysis_type, own.metadata))
        /\ ~own.awaiting =>
            own.outcome = Analyze(AIAnalyzerInit, own.content, own.analysis_type,
                                  own.metadata, own.http, own.start_time, own.end_time)

\* two coroutines were suspended at the same time and the second returned first
C22_Witness ==
    /\ Len(invocations) = 2
    /\ ~invocations[1].awaiting /\ ~invocations[2].awaiting
    /\ invocations[1].start_time = 0 /\ invocations[2].start_time = 0
    /\ invocations[2].end_time = 1 /\ invocations[1].end_time = 2
    /\ invocations[1].content # invocations[2].content
    /\ invocations[1].analysis_type # invocations[2].analysis_type
    /\ invocations[1].http.kind = "ReadTimeout"
    /\ "error" \in DOMAIN invocations[1].outcome.value
    /\ invocations[2].http.kind = "body"
    /\ "sentiment" \in DOMAIN invocations[2].outcome.value

(***************************************************************************)
(* Data sources and collection: trigger_collection and update_source over  *)
(* the tables data_sources and collected_data.                             *)
(***************************************************************************)
MaxCollections == 2

\* a row of the table data_sources
DataSource(id, repositories, enabled) ==
    [id |-> id, source_type |-> "github",
     config |-> ("token" :> Null) @@ ("repositories" :> repositories),
     enabled |-> enabled, last_checked |-> Null, updated_at |-> Null]

\* the sources created: one enabled, and one disabled whose config has no list of
\* repositories yet
SourceSamples ==
    <<DataSource(1, List(<<Str("acme/api")>>), TRUE),
      DataSource(2, Null, FALSE)>>

\* what the GitHub API answers for a repository: an error, or one recent commit
GithubAnswers ==
    {[kind |-> "GithubException"],
     [kind |-> "commits", messages |-> <<"Fix crash in login flow">>]}

RepoNames == {Str("acme/api")}

\* CollectorFactory._collectors
Collectors == {"github"}

\* GitHubCollector.__init__
GitHubCollector(config) ==
    [token |-> DictGet(config, "token", Null),
     repositories |-> DictGet(config, "repositories", List(<<>>))]

\* CollectorFactory.create_collector
CreateCollector(source_type, config) ==
    IF source_type \in Collectors
    THEN Return(GitHubCollector(config))
    ELSE Raise("ValueError")

\* str(e) of the exceptions a collection raises
ExceptionMessage(exc, source) ==
    CASE exc = "ValueError" ->
            "Unsupported source type: " \o source.source_type
            \o ". Available types: github"
      [] exc = "TypeError" -> "'NoneType' object is not iterable"
      [] OTHER -> exc

\* GitHubCollector.collect, the rows added for one repository: CollectedData(...)
\* per commit, db.add, db.commit; an error of the API is logged and adds nothing
CollectRepo(source, answer, next_id, t) ==
    IF answer.kind = "commits"
    THEN [k \in DOMAIN answer.messages |->
            [id |-> next_id + k - 1, source_id |-> source.id, data_type |-> "commit",
             content |-> Str(answer.messages[k]),
             metadata |-> Obj("author" :> Null),
             collected_at |-> t]]
    ELSE <<>>

RECURSIVE CollectRepos(_, _, _, _, _, _)
CollectRepos(repos, k, source, github, next_id, t) ==
    IF k = 0 THEN <<>>
    ELSE LET before == CollectRepos(repos, k - 1, source, github, next_id, t)
         IN  before \o CollectRepo(source, github[repos[k]], next_id + Len(before), t)

\* GitHubCollector.collect: the rows added to collected_data; "for repo_name in
\* self.repositories" raises when repositories is not a list
Collect(self, source, github, next_id, t) ==
    IF self.repositories.t = "list"
    THEN Return(CollectRepos(self.repositories.v, Len(self.repositories.v), source,
                             github, next_id, t))
    ELSE Raise("TypeError")

\* trigger_collection: "if not source.enabled" lets every source through
CollectionRejectedNever(source) == FALSE

\* trigger_collection: "if not source.enabled"
CollectionRejected(source) == ~source.enabled

IndexOfSource(source_id) == CHOOSE i \in DOMAIN sources : sources[i].id = source_id

TriggerCollection ==
    /\ Len(collectors) < MaxCollections
    /\ \E source_id \in 1..(Len(SourceSamples) + 1), github \in [RepoNames -> GithubAnswers] :
        LET request == [collect |-> source_id] IN
        IF ~\E i \in DOMAIN sources : sources[i].id = source_id
        THEN /\ response' = [request |-> request] @@ HTTPException(404,
                    "Data source with ID " \o ToString(source_id) \o " not found")
             /\ UNCHANGED <<sources, collected, collectors, now>>
        ELSE LET i == IndexOfSource(source_id)
                 source == sources[i]
                 made == CreateCollector(source.source_type, source.config)
                 got == Collect(made.value, source, github, Len(collected) + 1, now + 1)
             IN  IF CollectionRejected(source)
                 THEN /\ response' = [request |-> request] @@ HTTPException(400,
                            "Cannot collect from disabled source")
                      /\ UNCHANGED <<sources, collected, collectors, now>>
                 ELSE IF made.raised
                 THEN /\ response' = [request |-> request] @@ HTTPException(500,
                            "Collection failed: " \o ExceptionMessage(made.exc, source))
                      /\ UNCHANGED <<sources, collected, collectors, now>>
                 ELSE IF got.raised
                 THEN /\ response' = [request |-> request] @@ HTTPException(500,
                            "Collection failed: " \o ExceptionMessage(got.exc, source))
                      /\ collectors' = Append(collectors, [source_id |-> source_id] @@ made.value)
                      /\ UNCHANGED <<sources, collected, now>>
                 ELSE /\ collectors' = Append(collectors, [source_id |-> source_id] @@ made.value)
                      /\ collected' = collected \o got.value
                      /\ sources' = [sources EXCEPT ![i].last_checked = Num(now + 1)]
                      /\ now' = now + 1
                      /\ response' = [request |-> request, status |-> 200,
                                      body |-> [status |-> "success",
                                                collected |-> Len(got.value),
                                                timestamp |-> IsoFormat(now + 1)]]
    /\ UNCHANGED engineVars
    /\ UNCHANGED aggVars
    /\ UNCHANGED <<reports, report_seq, invocations>>

\* update_source with a body that sets enabled
UpdateSource ==
    /\ \E source_id \in 1..(Len(SourceSamples) + 1), enabled \in BOOLEAN :
        LET request == [update |-> source_id, enabled |-> enabled] IN
        IF ~\E i \in DOMAIN sources : sources[i].id = source_id
        THEN /\ response' = [request |-> request] @@ HTTPException(404,
                    "Data source with ID " \o ToString(source_id) \o " not found")
             /\ UNCHANGED sources
        ELSE LET i == IndexOfSource(source_id)
                 updated == [sources[i] EXCEPT !.enabled = enabled, !.updated_at = Num(now)]
             IN  /\ sources' = [sources EXCEPT ![i] = updated]
                 /\ response' = [request |-> request, status |-> 200, body |-> updated]
    /\ UNCHANGED <<collected, collectors, now>>
    /\ UNCHANGED engineVars
    /\ UNCHANGED aggVars
    /\ UNCHANGED <<reports, report_seq, invocations>>

CollectInit ==
    /\ EngineInit
    /\ AggIdle
    /\ ApiIdle
    /\ sources = SourceSamples
    /\ collected = <<>>
    /\ collectors = <<>>
    /\ invocations = <<>>

CollectNext == TriggerCollection \/ UpdateSource

CollectSpec == CollectInit /\ [][CollectNext]_vars

IsCollect(resp) == "request" \in DOMAIN resp /\ "collect" \in DOMAIN resp.request

\* C29: a trigger_collection on a source that is not enabled answers 400 and leaves
\* the collectors created, the sources (so last_checked) and the collected items as
\* they were; and last_checked of a source changes only in a trigger_collection on
\* that source, enabled, that created a collector, completed and answered 200.
C29_CollectionGatedOnEnabled ==
    /\ [][(IsCollect(response')
            /\ \E i \in DOMAIN sources :
                    sources[i].id = response'.request.collect /\ ~sources[i].enabled)
           => /\ response'.status = 400
              /\ response'.detail = "Cannot collect from disabled source"
              /\ collectors' = collectors
              /\ collected' = collected
              /\ sources' = sources]_vars
    /\ [][\A i \in DOMAIN sources :
            sources'[i].last_checked # sources[i].last_checked
            => /\ sources[i].enabled
               /\ IsCollect(response')
               /\ response'.request.collect = sources[i].id
               /\ response'.status = 200
               /\ Len(collectors') = Len(collectors) + 1
               /\ sources'[i].last_checked = Num(now')]_vars

\* source 1 has been collected from, then disabled, and a collection on it refused
C29_Witness ==
    /\ IsCollect(response)
    /\ response.request.collect = 1
    /\ response.status = 400
    /\ ~sources[1].enabled
    /\ sources[1].last_checked = Num(1)
    /\ Len(collected) = 1
    /\ Len(collectors) = 1

(***************************************************************************)
(* The analysis API (analyze_data, get_analysis_results, get_analysis) and *)
(* the whole reports API over the tables collected_data, analyses, reports.*)
(***************************************************************************)
MaxClock == 3
MaxApiReports == 1

\* timedelta(hours=24), in seconds
Day == 86400

\* the items collected: a commit and an issue without a body, both of source 1
CollectedSamples ==
    <<[id |-> 1, source_id |-> 1, data_type |-> "commit",
       content |-> Str("Fix crash in login flow"),
       metadata |-> Obj("author" :> Null), collected_at |-> 0],
      [id |-> 2, source_id |-> 1, data_type |-> "issue",
       content |-> Str(""),
       metadata |-> Obj("state" :> Str("open")), collected_at |-> 0]>>

\* AnalysisRequest: the request bodies sent
AnalysisRequests ==
    {[source_id |-> Num(1), data_ids |-> Null, analysis_type |-> "sentiment"],
     [source_id |-> Null, data_ids |-> List(<<2>>), analysis_type |-> "sentiment"],
     [source_id |-> Null, data_ids |-> List(<<9>>), analysis_type |-> "sentiment"],
     [source_id |-> Null, data_ids |-> Null, analysis_type |-> "sentiment"]}

\* the answers of the inference call to the endpoint's analyzer
EndpointOutcomes ==
    {[kind |-> "ConnectError"],
     [kind |-> "body", body |-> Completion(Str(TextScored))],
     [kind |-> "body", body |-> Completion(Str(TextConfident))]}

\* analyze_data: the query for the data to analyze, rows in id order
SelectData(rows, request, t) ==
    IF Truthy(request.data_ids)
    THEN Return(SelectSeq(rows, LAMBDA data :
            \E i \in DOMAIN request.data_ids.v : request.data_ids.v[i] = data.id))
    ELSE IF Truthy(request.source_id)
    THEN Return(SelectSeq(rows, LAMBDA data :
            data.source_id = request.source_id.v /\ data.collected_at >= t - Day))
    ELSE Raise("HTTPException")

\* analyze_data: the analyze calls of the loop over the first k data items, one
\* after the other from time t
RECURSIVE AnalyzeItems(_, _, _, _, _)
AnalyzeItems(data_items, k, atype, https, t) ==
    IF k = 0 THEN <<>>
    ELSE LET before == AnalyzeItems(data_items, k - 1, atype, https, t)
             t0 == IF before = <<>> THEN t ELSE before[Len(before)].t1
             data == data_items[k]
         IN  Append(before, AnalyzeTrace(AIAnalyzerInit, data.content, atype,
                                         data.metadata, https[k], t0,
                                         t0 + Latency(https[k])))

\* Analysis(...) for a data item and the result of its analyze call
NewAnalysis(data, atype, result) ==
    [source_id |-> data.source_id, data_id |-> data.id, analysis_type |-> atype,
     result |-> result,
     confidence |-> DictGet(result, "confidence", Null),
     model_used |-> DictGet(result, "model", Null),
     processing_time |-> DictGet(result, "processing_time", Null)]

\* analyze_data: the list analyses after the loop; an item whose analyze call raised
\* is logged and left out
RECURSIVE AnalysesOf(_, _, _, _)
AnalysesOf(data_items, traces, k, atype) ==
    IF k = 0 THEN <<>>
    ELSE LET before == AnalysesOf(data_items, traces, k - 1, atype)
         IN  IF traces[k].outcome.raised THEN before
             ELSE Append(before, NewAnalysis(data_items[k], atype, traces[k].outcome.value))

\* db.commit(): the insert fails when a value does not fit its column; confidence
\* is a Float column
CommitRaises(rows) ==
    \E i \in DOMAIN rows : rows[i].confidence.t \notin {"null", "num"}

\* db.commit() and db.refresh(): the rows with their ids and created_at
Flushed(rows, last_id, t) ==
    [i \in DOMAIN rows |-> [id |-> last_id + i, created_at |-> t] @@ rows[i]]

\* the table after a commit that keeps only the rows of this session
AddRowsOverwriting(table, rows) == rows

\* the table after the commit of the rows added
AddRows(table, rows) == table \o rows

\* analyze_data on data items that were found, the inference calls answering https
AnalyzeSelected(request, data_items, https) ==
    LET traces == AnalyzeItems(data_items, Len(data_items), request.analysis_type,
                               https, now)
        t == traces[Len(traces)].t1
        added == AnalysesOf(data_items, traces, Len(traces), request.analysis_type)
        rows == Flushed(added, Len(analyses), t)
    IN  /\ calls' = traces
        /\ now' = t
        /\ IF CommitRaises(added)
           THEN /\ response' = [request |-> request] @@ InternalServerError
                /\ UNCHANGED analyses
           ELSE /\ analyses' = AddRows(analyses, rows)
                /\ response' = [request |-> request, status |-> 200, body |-> rows]

AnalyzeData ==
    /\ \E request \in AnalysisRequests :
        LET selected == SelectData(collected, request, now)
            data_items == selected.value
        IN  IF selected.raised
            THEN /\ response' = [request |-> request] @@ HTTPException(400,
                        "Either source_id or data_ids must be provided")
                 /\ UNCHANGED <<analyses, calls, now>>
            ELSE IF data_items = <<>>
            THEN /\ response' = [request |-> request, status |-> 200, body |-> <<>>]
                 /\ UNCHANGED <<analyses, calls, now>>
            ELSE /\ now + Len(data_items) <= MaxClock
                 /\ \E https \in [DOMAIN data_items -> EndpointOutcomes] :
                        AnalyzeSelected(request, data_items, https)
    /\ UNCHANGED <<engine, pc, items, analysis_type, results>>
    /\ UNCHANGED <<hash_seed, runs>>
    /\ UNCHANGED <<reports, report_seq>>
    /\ UNCHANGED serviceVars

\* query.order_by(created_at.desc()): the orders the query can give the rows in
NewestFirst(rows) ==
    {[i \in DOMAIN rows |-> rows[p[i]]] :
        p \in {q \in [DOMAIN rows -> DOMAIN rows] :
                /\ \A i, j \in DOMAIN rows : i # j => q[i] # q[j]
                /\ \A i, j \in DOMAIN rows :
                        i < j => rows[q[i]].created_at >= rows[q[j]].created_at}}

\* a handler that only reads: nothing but the response changes
ReadOnly ==
    /\ UNCHANGED <<reports, report_seq, now>>
    /\ UNCHANGED engineVars
    /\ UNCHANGED aggVars
    /\ UNCHANGED serviceVars

\* get_analysis_results, with skip and limit at their defaults
GetAnalysisResults ==
    /\ \E source_id \in {Null, Num(2)}, atype \in {Null} :
        LET found == SelectSeq(analyses, LAMBDA a :
                        /\ Truthy(source_id) => a.source_id = source_id.v
                        /\ Truthy(atype) => a.analysis_type = atype.v)
        IN  \E body \in NewestFirst(found) :
                response' = [request |-> [results_of |-> source_id, analysis_type |-> atype],
                             status |-> 200, body |-> body]
    /\ ReadOnly

\* get_analysis
GetAnalysis ==
    /\ \E analysis_id \in 1..(Len(CollectedSamples) + 1) :
        LET found == SelectSeq(analyses, LAMBDA a : a.id = analysis_id)
            request == [analysis |-> analysis_id]
        IN  IF found = <<>>
            THEN response' = [request |-> request] @@ HTTPException(404,
                    "Analysis with ID " \o ToString(analysis_id) \o " not found")
            ELSE response' = [request |-> request, status |-> 200, body |-> found[1]]
    /\ ReadOnly

\* ReportCreate: a request for a report on everything analysed so far
RecentReportRequests ==
    [title : {"R&D <weekly>"}, report_type : {"custom"},
     period_start : {0}, period_end : {Day}, source_ids : {Null}]

GenerateRecentReport ==
    /\ report_seq < MaxApiReports
    /\ \E report_data \in RecentReportRequests : GenerateReportOf(report_data)

\* export_report as a document
ExportRecentReport ==
    \E report_id \in 1..(MaxApiReports + 1), format \in {"html"} :
        ExportReportAs(report_id, format)

\* list_reports, with skip and limit at their defaults
ListReports ==
    /\ \E report_type \in {Null, Str("daily")} :
        LET found == SelectSeq(reports, LAMBDA r :
                        Truthy(report_type) => r.report_type = report_type.v)
        IN  \E body \in NewestFirst(found) :
                response' = [request |-> [list |-> report_type],
                             status |-> 200, body |-> body]
    /\ ReadOnly

\* get_latest_report
GetLatestReport ==
    /\ \E report_type \in {Null, Str("daily")} :
        LET found == SelectSeq(reports, LAMBDA r :
                        Truthy(report_type) => r.report_type = report_type.v)
            request == [latest |-> report_type]
        IN  IF found = <<>>
            THEN response' = [request |-> request] @@ HTTPException(404, "No reports found")
            ELSE \E body \in NewestFirst(found) :
                    response' = [request |-> request, status |-> 200, body |-> body[1]]
    /\ ReadOnly

\* get_report
GetReport ==
    /\ \E report_id \in 1..(MaxApiReports + 1) :
        LET found == SelectSeq(reports, LAMBDA r : r.id = report_id)
            request == [report |-> report_id]
        IN  IF found = <<>>
            THEN response' = [request |-> request] @@ HTTPException(404,
                    "Report with ID " \o ToString(report_id) \o " not found")
            ELSE response' = [request |-> request, status |-> 200, body |-> found[1]]
    /\ ReadOnly

\* delete_report
DeleteReport ==
    /\ \E report_id \in 1..(MaxApiReports + 1) :
        LET found == SelectSeq(reports, LAMBDA r : r.id = report_id)
            request == [delete |-> report_id]
        IN  IF found = <<>>
            THEN /\ response' = [request |-> request] @@ HTTPException(404,
                        "Report with ID " \o ToString(report_id) \o " not found")
                 /\ UNCHANGED reports
            ELSE /\ reports' = SelectSeq(reports, LAMBDA r : r.id # report_id)
                 /\ response' = [request |-> request, status |-> 204]
    /\ UNCHANGED <<report_seq, now>>
    /\ UNCHANGED engineVars
    /\ UNCHANGED aggVars
    /\ UNCHANGED serviceVars

ApiInit ==
    /\ EngineInit
    /\ AggIdle
    /\ ApiIdle
    /\ sources = SourceSamples
    /\ collected = CollectedSamples
    /\ collectors = <<>>
    /\ invocations = <<>>

ApiNext ==
    \/ AnalyzeData
    \/ GetAnalysisResults
    \/ GetAnalysis
    \/ GenerateRecentReport
    \/ ListReports
    \/ GetLatestReport
    \/ GetReport
    \/ ExportRecentReport
    \/ DeleteReport

ApiSpec == ApiInit /\ [][ApiNext]_vars

(***************************************************************************)
(* Claims about the API.                                                   *)
(***************************************************************************)
IsAnalyze(resp) == "request" \in DOMAIN resp /\ "data_ids" \in DOMAIN resp.request

\* the data items the request of the last response selected
SelectedBy(resp) == SelectData(collected, resp.request, now)

\* C21: an analyze_data call that selected data items answers 200 with one analysis
\* record per selected item, in the order of the items, each of them stored, and
\* the record of an item whose inference call failed has an error field in its
\* result.
C21_PartialFailuresDoNotFailTheCall ==
    (IsAnalyze(response) /\ ~SelectedBy(response).raised
        /\ SelectedBy(response).value # <<>>) =>
            LET data_items == SelectedBy(response).value IN
            /\ response.status = 200
            /\ Len(response.body) = Len(data_items)
            /\ \A i \in DOMAIN data_items :
                /\ response.body[i].data_id = data_items[i].id
                /\ \E j \in DOMAIN analyses : analyses[j] = response.body[i]
                /\ response.body[i].result = calls[i].outcome.value
                /\ calls[i].result.raised => "error" \in DOMAIN response.body[i].result

\* C25: in every step of the API the table analyses only grows at its end, and a
\* report that is still stored after the step is the report it was before it.
C25_StoredRecordsImmutable ==
    [][/\ Len(analyses') >= Len(analyses)
       /\ SubSeq(analyses', 1, Len(analyses)) = analyses
       /\ \A i \in DOMAIN reports : \A j \in DOMAIN reports' :
            reports'[j].id = reports[i].id =>
                /\ reports'[j].title = reports[i].title
                /\ reports'[j].period_start = reports[i].period_start
                /\ reports'[j].period_end = reports[i].period_end
                /\ reports'[j].summary = reports[i].summary
                /\ reports'[j].insights = reports[i].insights]_vars

\* a report was generated over one analysis, a second analysis was stored after it,
\* and the report has just been exported as HTML
C25_Witness ==
    /\ Len(analyses) = 2
    /\ Len(reports) = 1
    /\ reports[1].insights["total_analyses"] = 1
    /\ analyses[2].created_at > reports[1].created_at
    /\ IsExport(response)
    /\ response.request = [report_id |-> 1, format |-> "html"]
    /\ response.status = 200

====
